---- MODULE Spec2Model ----
(***************************************************************************)
(* delta-rs/x-bot: the polling bot (bot.rs, github.rs, x.rs) and the       *)
(* webhook prototype (webhook/handler.rs, x/client.rs).                    *)
(*                                                                         *)
(*   Spec          bot::start run to completion: ledger seeding, the       *)
(*                 spawned poll loop, the capacity-1 channel, the consumer *)
(*   SpecShutdown  Spec plus the caller dropping the receiver              *)
(*   SpecClassify  filter_github_event / handle_release on drawn inputs    *)
(*   SpecLedger    is_first_contribution called repeatedly on a ledger     *)
(*   SpecExit      Spec with exit_on_poll_error, the consumer fair         *)
(*   SpecSeed      gather_announced_contributors on longer histories       *)
(*   SpecPost      the consumer loop with x::Client::post_tweet stepwise   *)
(*   SpecRetry     XClient::post_with_retry attempt by attempt             *)
(*   SpecWindow    XClient::send_tweet called sequentially as time passes  *)
(*   SpecRace      XClient::send_tweet called by concurrent requests       *)
(*   SpecWebhook   handle_webhook serving one request, handle_push stepwise*)
(*   SpecPushes    pushes served one after another by the webhook handler  *)
(*                 and its ContributorManager as the cache TTL passes      *)
(*   SpecLocks     concurrent calls on the ContributorManager's RwLocks    *)
(*   SpecShutdownFair, SpecPostFair, SpecLocksFair: the same with the      *)
(*                 scheduler fair                                          *)
(***************************************************************************)
EXTENDS Integers, Sequences, FiniteSets, TLC

\* ------------------------------------------------------------------ bounds

\* Fetches of the events feed the poll loop makes in one run.
MaxPolls == 4
\* Commits in the tracked branch's history at startup.
MaxHistory == 3
\* Commits in one drawn push event (SpecClassify).
MaxCommits == 2
\* Calls of is_first_contribution in one run of SpecLedger.
MaxCalls == 3
\* Page sizes (fetch_pages_per_request) and history lengths of SpecSeed.
MaxPerPage == 3
MaxSeedHistory == 5
\* Attempt ceilings of x::Client (max_retries + 1) drawn in SpecPost.
MaxAttempts == 3
\* Events the channel delivers to the consumer in one run of SpecPost.
MaxDeliveries == 2
\* Calls of send_tweet in one run of SpecWindow (more than TWEETS_PER_WINDOW).
MaxSends == 52
\* The time, in seconds since XClient::new, up to which SpecWindow runs.
MaxClock == 1800
\* Concurrent callers of send_tweet, and calls each makes, in SpecRace.
MaxSenders == 2
MaxRaceCalls == 2
\* Push deliveries handled one after another in SpecPushes.
MaxPushes == 2
\* The time to which the clock of SpecPushes is advanced.
MaxPushClock == 700
\* Concurrent callers of the ContributorManager, and the calls they make in
\* total.
MaxCallers == 2
MaxLockCalls == 3

\* ------------------------------------------------------------------ domain

Emails == {"alice", "bob", "carol"}
\* RepoCommit.commit.author is an Option: a history commit may have no author.
NoAuthor == "no-author"
\* Option::None of an etag, of a release name, of an announcement.
NoEtag == 0
NoName == "no-name"
NoAnnouncement == [kind |-> "None"]

Min(a, b) == IF a < b THEN a ELSE b
Max(a, b) == IF a > b THEN a ELSE b

RECURSIVE SeqsUpTo(_, _)
SeqsUpTo(S, n) ==
  IF n = 0 THEN {<<>>}
  ELSE LET shorter == SeqsUpTo(S, n - 1)
       IN shorter \cup {Append(s, x) : s \in {t \in shorter : Len(t) = n - 1}, x \in S}

\* ------------------------------------------------- events of the feed

CommitAuthor(e) == [name |-> e, email |-> e]

\* A push event whose i-th commit has author cs[i][1] and distinct flag cs[i][2].
PushEvent(id, cs) ==
  [id |-> id, kind |-> "push",
   commits |-> [i \in 1..Len(cs) |->
                  [author |-> CommitAuthor(cs[i][1]), distinct |-> cs[i][2],
                   message |-> i, url |-> i]]]

ReleaseActions == {"published", "created", "edited", "deleted", "released"}

ReleaseEvent(id, action, rel) ==
  [id |-> id, kind |-> "release", action |-> action, release |-> rel]

\* Release v1.2.0 has no display name; release v2.0.0 is named "Two".
Rel1 == [name |-> NoName, tag_name |-> "v1.2.0", html_url |-> "rel/1"]
Rel2 == [name |-> "Two", tag_name |-> "v2.0.0", html_url |-> "rel/2"]
Releases == {Rel1, Rel2}
ReleaseUrls == {r.html_url : r \in Releases}

\* An event of another type (mock_delete_event.json), and one without payload.
OtherEvent(id) == [id |-> id, kind |-> "other"]
NoPayloadEvent(id) == [id |-> id, kind |-> "nopayload"]

\* The activity records the events feed serves in Spec.
PollEvents ==
  { PushEvent(1, << <<"alice", TRUE>>, <<"bob", TRUE>> >>),
    PushEvent(2, << <<"bob", TRUE>>, <<"bob", TRUE>> >>),
    ReleaseEvent(3, "published", Rel1),
    OtherEvent(4),
    NoPayloadEvent(5) }

\* ------------------------------------------------- bot.rs: the classifier

\* Every author taken for a new one.
is_first_contribution_always_new(announced, author) ==
  [ret |-> TRUE, announced |-> announced \cup {author.email}]

\* The ledger consulted but not updated.
is_first_contribution_contains_only(announced, author) ==
  [ret |-> author.email \notin announced, announced |-> announced]

\* announced_contributors.insert(email): true iff the email was newly inserted.
is_first_contribution(announced, author) ==
  [ret |-> author.email \notin announced,
   announced |-> announced \cup {author.email}]

NewContributor(commit) ==
  [name |-> commit.author.name, commit_message |-> commit.message,
   url |-> commit.url]

\* The announcements collected newest commit first.
RECURSIVE FilterCommits_newest_first(_, _)
FilterCommits_newest_first(announced, commits) ==
  IF commits = <<>> THEN [announced |-> announced, out |-> <<>>]
  ELSE LET c == Head(commits)
       IN IF ~c.distinct THEN FilterCommits_newest_first(announced, Tail(commits))
          ELSE LET r == is_first_contribution(announced, c.author)
                   rest == FilterCommits_newest_first(r.announced, Tail(commits))
               IN [announced |-> rest.announced,
                   out |-> IF r.ret THEN rest.out \o <<NewContributor(c)>>
                           ELSE rest.out]

\* The author of a commit that is not distinct recorded, though not announced.
RECURSIVE FilterCommits_records_all(_, _)
FilterCommits_records_all(announced, commits) ==
  IF commits = <<>> THEN [announced |-> announced, out |-> <<>>]
  ELSE LET c == Head(commits)
           r == is_first_contribution(announced, c.author)
           rest == FilterCommits_records_all(r.announced, Tail(commits))
       IN [announced |-> rest.announced,
           out |-> IF c.distinct /\ r.ret THEN <<NewContributor(c)>> \o rest.out
                   ELSE rest.out]

\* commits.into_iter().filter(distinct).filter(is_first_contribution).map().collect()
RECURSIVE FilterCommits(_, _)
FilterCommits(announced, commits) ==
  IF commits = <<>> THEN [announced |-> announced, out |-> <<>>]
  ELSE LET c == Head(commits)
       IN IF ~c.distinct THEN FilterCommits(announced, Tail(commits))
          ELSE LET r == is_first_contribution(announced, c.author)
                   rest == FilterCommits(r.announced, Tail(commits))
               IN [announced |-> rest.announced,
                   out |-> IF r.ret THEN <<NewContributor(c)>> \o rest.out
                           ELSE rest.out]

\* payload.release.name.unwrap_or(payload.release.tag_name)
ReleaseVersion(rel) == IF rel.name # NoName THEN rel.name ELSE rel.tag_name

\* The guard on the release action left out.
filter_github_event_any_action(announced, event) ==
  IF event.kind = "push"
  THEN LET r == FilterCommits(announced, event.commits)
       IN [announced |-> r.announced,
           announcement |-> [kind |-> "Contributor", items |-> r.out]]
  ELSE IF event.kind = "release"
  THEN [announced |-> announced,
        announcement |-> [kind |-> "Release",
                          version |-> ReleaseVersion(event.release),
                          url |-> event.release.html_url]]
  ELSE [announced |-> announced, announcement |-> NoAnnouncement]

\* A published release starting the ledger afresh.
filter_github_event_release_clears_ledger(announced, event) ==
  IF event.kind = "push"
  THEN LET r == FilterCommits(announced, event.commits)
       IN [announced |-> r.announced,
           announcement |-> [kind |-> "Contributor", items |-> r.out]]
  ELSE IF event.kind = "release" /\ event.action = "published"
  THEN [announced |-> {},
        announcement |-> [kind |-> "Release",
                          version |-> ReleaseVersion(event.release),
                          url |-> event.release.html_url]]
  ELSE [announced |-> announced, announcement |-> NoAnnouncement]

\* match event.specific: a push, a published release, anything else.
filter_github_event(announced, event) ==
  IF event.kind = "push"
  THEN LET r == FilterCommits(announced, event.commits)
       IN [announced |-> r.announced,
           announcement |-> [kind |-> "Contributor", items |-> r.out]]
  ELSE IF event.kind = "release" /\ event.action = "published"
  THEN [announced |-> announced,
        announcement |-> [kind |-> "Release",
                          version |-> ReleaseVersion(event.release),
                          url |-> event.release.html_url]]
  ELSE [announced |-> announced, announcement |-> NoAnnouncement]

\* ------------------------------------------------- x/client.rs: XClient

MAX_RETRIES == 3
RATE_LIMIT_WINDOW == 15 * 60
TWEETS_PER_WINDOW == 50

\* What the posting API does with one request: it creates the post and answers
\* with its data, creates it and answers without data, fails (5xx, network),
\* or rejects the request with a 4xx status.
ApiOutcomes == {"created", "created_no_data", "failed", "rejected"}

\* The caller at capacity sent on without waiting.
send_tweet_no_wait(x, t, outcome) ==
  LET elapsed == t - x.window_start
      expired == elapsed >= RATE_LIMIT_WINDOW
      full == ~expired /\ x.tweet_count >= TWEETS_PER_WINDOW
      count == IF expired \/ full THEN 0 ELSE x.tweet_count
      start == IF expired \/ full THEN t ELSE x.window_start
  IN [tweet_count |-> IF outcome \in {"created", "created_no_data"}
                      THEN count + 1 ELSE count,
      window_start |-> start,
      now |-> t,
      ret |-> IF outcome = "created" THEN "Ok" ELSE "Err"]

\* The count left as it is after the wait at capacity.
send_tweet_no_reset(x, t, outcome) ==
  LET elapsed == t - x.window_start
      expired == elapsed >= RATE_LIMIT_WINDOW
      full == ~expired /\ x.tweet_count >= TWEETS_PER_WINDOW
      wait_time == IF full THEN RATE_LIMIT_WINDOW - elapsed ELSE 0
      count == IF expired THEN 0 ELSE x.tweet_count
      start == IF expired \/ full THEN t ELSE x.window_start
  IN [tweet_count |-> IF outcome \in {"created", "created_no_data"}
                      THEN count + 1 ELSE count,
      window_start |-> start,
      now |-> t + wait_time,
      ret |-> IF outcome = "created" THEN "Ok" ELSE "Err"]

\* Every request counted, accepted by the API or not.
send_tweet_counts_requests(x, t, outcome) ==
  LET elapsed == t - x.window_start
      expired == elapsed >= RATE_LIMIT_WINDOW
      full == ~expired /\ x.tweet_count >= TWEETS_PER_WINDOW
      wait_time == IF full THEN RATE_LIMIT_WINDOW - elapsed ELSE 0
      count == IF expired \/ full THEN 0 ELSE x.tweet_count
      start == IF expired \/ full THEN t ELSE x.window_start
  IN [tweet_count |-> count + 1,
      window_start |-> start,
      now |-> t + wait_time,
      ret |-> IF outcome = "created" THEN "Ok" ELSE "Err"]

\* XClient::send_tweet at time t on the counters x: the window is reset when
\* it has expired; at capacity the caller sleeps to the window's end and the
\* window is reset with the time read before the sleep; then the request is made.
send_tweet(x, t, outcome) ==
  LET elapsed == t - x.window_start
      expired == elapsed >= RATE_LIMIT_WINDOW
      full == ~expired /\ x.tweet_count >= TWEETS_PER_WINDOW
      wait_time == IF full THEN RATE_LIMIT_WINDOW - elapsed ELSE 0
      count == IF expired \/ full THEN 0 ELSE x.tweet_count
      start == IF expired \/ full THEN t ELSE x.window_start
  IN [tweet_count |-> IF outcome \in {"created", "created_no_data"}
                      THEN count + 1 ELSE count,
      window_start |-> start,
      now |-> t + wait_time,
      ret |-> IF outcome = "created" THEN "Ok" ELSE "Err"]

\* ------------------------------------------------- webhook/handler.rs

\* Every release event is tweeted, whatever its action.
handle_release_any_action(event, x, t, outcome) ==
  LET sent == send_tweet(x, t, outcome)
  IN [tweet_count |-> sent.tweet_count, window_start |-> sent.window_start,
      now |-> sent.now, ret |-> "Ok",
      posts |-> << [kind |-> "Release", version |-> event.release.tag_name,
                    url |-> event.release.html_url] >>]

\* WebhookHandler::handle_release: only a published release is tweeted, with
\* its tag name; a failed send is logged and Ok(()) returned.
handle_release(event, x, t, outcome) ==
  IF event.action # "published"
  THEN [tweet_count |-> x.tweet_count, window_start |-> x.window_start,
        now |-> t, ret |-> "Ok", posts |-> <<>>]
  ELSE LET sent == send_tweet(x, t, outcome)
       IN [tweet_count |-> sent.tweet_count, window_start |-> sent.window_start,
           now |-> sent.now, ret |-> "Ok",
           posts |-> << [kind |-> "Release",
                         version |-> event.release.tag_name,
                         url |-> event.release.html_url] >>]

\* One x_client.post_tweet call per new contributor, in order; one per release.
\* The log counts the tweet requests by author and by release.
RECURSIVE TweetContributors(_, _)
TweetContributors(log, items) ==
  IF items = <<>> THEN log
  ELSE TweetContributors(
         [log EXCEPT !.contributor[Head(items).name] = @ + 1], Tail(items))

tweet_announcement(log, announcement) ==
  IF announcement.kind = "Contributor"
  THEN TweetContributors(log, announcement.items)
  ELSE IF announcement.kind = "Release"
  THEN [log EXCEPT !.release[announcement.url] = @ + 1]
  ELSE log

\* The PostTweetRequests tweet_announcement hands to post_tweet, in the order
\* of its calls: new_contributor.into() for each item, new_release.into().
PostTweetRequests(announcement) ==
  IF announcement.kind = "Contributor"
  THEN [k \in 1..Len(announcement.items) |->
          [kind |-> "Contributor", name |-> announcement.items[k].name,
           commit_message |-> announcement.items[k].commit_message,
           url |-> announcement.items[k].url]]
  ELSE IF announcement.kind = "Release"
  THEN << [kind |-> "Release", version |-> announcement.version,
           url |-> announcement.url] >>
  ELSE <<>>

\* ------------------------------------------------- state

VARIABLES
  exit_on_poll_error,      \* GithubConfiguration.exit_on_poll_error
  per_page,                \* GithubConfiguration.fetch_pages_per_request
  history,                 \* the tracked branch's commits (authors), first page first
  start_pc,                \* where bot::start is
  page_index,              \* gather_announced_contributors: page_index
  has_next_page,           \* gather_announced_contributors: has_next_page
  announced_contributors,  \* the ledger
  seeded,                  \* the ledger as gather_announced_contributors returned it
  poll_pc,                 \* where the spawned poll loop is
  etag,                    \* the poll loop's cursor
  events,                  \* the response the poll loop is forwarding
  chan,                    \* mpsc::channel(1): the buffered payloads
  receiver_alive,          \* the receiving end has not been dropped
  polls,                   \* fetches of the events feed so far
  forwarded,               \* payloads the channel has accepted so far
  last_poll,               \* the latest fetch: its request and its answer
  nd,                      \* the current run of same-cursor "no new data" polls
  tweets,                  \* tweet requests issued, by author and by release
  last_class,              \* the latest call of filter_github_event
  in_event,                \* SpecClassify: the event drawn
  hook,                    \* SpecClassify: what handle_release did with it
  tweet_count,             \* XClient.tweet_count
  window_start,            \* XClient.window_start
  now,                     \* Utc::now().timestamp()
  calls,                   \* SpecLedger: the calls of is_first_contribution
  posted,                  \* the tweet requests of the latest tweet_announcement, in order
  max_attempts,            \* x::Client.max_attempts
  post,                    \* the post_tweet / post_with_retry call in progress
  outbox,                  \* tweet_announcement: the requests not yet handed to post_tweet
  deliveries,              \* SpecPost: events put into the channel so far
  rate,                    \* SpecWindow: the calls of send_tweet made so far
  senders,                 \* SpecRace: the send_tweet calls in progress
  web,                     \* SpecWebhook: the request handle_webhook is serving
  mgr,                     \* the ContributorManager behind the webhook handler
  locks                    \* SpecLocks: the manager's two RwLocks and its callers

cfgVars == <<exit_on_poll_error, per_page, history>>
seedVars == <<page_index, has_next_page, seeded>>
pollVars == <<poll_pc, etag, events>>
pollLog == <<polls, forwarded, last_poll, nd>>
xVars == <<tweet_count, window_start, now>>
pureVars == <<in_event, hook, calls>>
postVars == <<max_attempts, post, outbox, deliveries>>
rateVars == <<rate, senders>>
webVars == <<web, mgr, locks>>

vars == <<cfgVars, seedVars, pollVars, pollLog, xVars, postVars, rateVars,
          webVars, posted, pureVars, start_pc, announced_contributors, chan,
          receiver_alive, tweets, last_class>>

\* mpsc::channel(1)
ChannelCapacity == 1

NoPoll == [n |-> 0, kind |-> "none", req |-> NoEtag, resp |-> NoEtag,
           total |-> 0, sent |-> 0]
NoValue == [some |-> FALSE, page |-> <<>>]
NoEvents == [etag |-> NoEtag, value |-> NoValue, pending |-> <<>>]
NoSnapshot == [announced |-> {}, etag |-> NoEtag, forwarded |-> 0, chan |-> <<>>]
NoRun == [streak |-> 0, first |-> NoSnapshot, second |-> NoSnapshot]
NoPlace == [resp |-> 0, pos |-> 0]
NoClass == [event |-> OtherEvent(0), at |-> NoPlace, before |-> {}, after |-> {},
            announcement |-> NoAnnouncement]
NoTweets == [contributor |-> [e \in Emails |-> 0],
             release |-> [u \in ReleaseUrls |-> 0]]
NoHook == [done |-> FALSE, posts |-> <<>>, ret |-> "none"]
NoCall == [t |-> 0, window_start |-> 0, tweet_count |-> 0, outcome |-> "none",
           reached |-> 0, count_after |-> 0, ret |-> "none"]
NoRate == [calls |-> 0, waits |-> 0, last |-> NoCall]
NoSenders == <<>>
NoPost == [pc |-> "idle", attempts |-> 0, statuses |-> <<>>, delays |-> <<>>,
           result |-> "none", given_up |-> 0]
NoRequest == [event_type |-> "none", body |-> [kind |-> "none"]]
NoWeb == [pc |-> "idle", request |-> NoRequest, status |-> 0,
          called |-> "none", handler_ret |-> "none", commits |-> <<>>,
          checks |-> <<>>, posts |-> <<>>, served |-> 0, earlier |-> <<>>]
NoCheck == [n |-> 0, username |-> "none", t |-> 0, expired |-> FALSE,
            ret |-> "none", cache |-> {}, last_refresh |-> 0]
NoMgr == [cache |-> {}, last_refresh |-> 0, history |-> {}, last |-> NoCheck]
FreeLock == [writer |-> 0, readers |-> {}]
NoLocks == [contributors_cache |-> FreeLock, last_refresh |-> FreeLock,
            callers |-> <<>>, calls |-> 0]

\* ------------------------------------------------- github.rs: seeding

\* GET /repos/../commits?per_page=..&page=p as GitHub serves it: pages are
\* numbered from 1 and page 0 is the first page; rel="next" while commits remain.
fetch_commit_page(p) ==
  LET page == Max(p, 1)
      first == (page - 1) * per_page + 1
      last == Min(page * per_page, Len(history))
  IN [items |-> [i \in 1..Max(last - first + 1, 0) |-> history[first + i - 1]],
      next |-> page * per_page < Len(history)]

\* filter_map(|commit| commit.commit.author): the emails of the page's authors.
PageAuthors(page) ==
  {page.items[i] : i \in 1..Len(page.items)} \ {NoAuthor}

\* start_poll_events: the channel is created and the loop spawned.
Spawned ==
  /\ poll_pc' = "fetch"
  /\ etag' = NoEtag

\* One turn of the while loop of gather_announced_contributors; after the last
\* page bot::start goes on to start_poll_events.
SeedPage ==
  /\ start_pc = "seeding"
  /\ LET page == fetch_commit_page(page_index)
         gathered == announced_contributors \cup PageAuthors(page)
     IN /\ has_next_page' = page.next
        /\ page_index' = page_index + per_page
        /\ announced_contributors' = gathered
        /\ IF page.next
           THEN /\ start_pc' = "seeding"
                /\ UNCHANGED <<poll_pc, etag, seeded>>
           ELSE /\ start_pc' = "consuming"
                /\ seeded' = gathered
                /\ Spawned
  /\ UNCHANGED <<cfgVars, events, pollLog, xVars, postVars, rateVars, webVars,
                 posted, pureVars, chan, receiver_alive, tweets, last_class>>

\* A failed page fetch taken for the end of the history.
SeedFails_goes_on ==
  /\ start_pc = "seeding"
  /\ start_pc' = "consuming"
  /\ seeded' = announced_contributors
  /\ Spawned
  /\ UNCHANGED <<cfgVars, page_index, has_next_page, events, pollLog, xVars,
                 postVars, rateVars, webVars, posted, pureVars,
                 announced_contributors, chan, receiver_alive, tweets,
                 last_class>>

\* fetch_commit_page(..).await? fails: gather and bot::start return the error.
SeedFails ==
  /\ start_pc = "seeding"
  /\ start_pc' = "failed"
  /\ receiver_alive' = FALSE
  /\ UNCHANGED <<cfgVars, seedVars, pollVars, pollLog, xVars, postVars,
                 rateVars, webVars, posted, pureVars, announced_contributors,
                 chan, tweets, last_class>>

\* ------------------------------------------------- github.rs: the poll loop

\* The events feed answers with at most per_page records, each event once.
EventPages ==
  {p \in SeqsUpTo(PollEvents, per_page) :
     \A i, j \in 1..Len(p) : p[i] = p[j] => i = j}

\* The place of a record in the page the feed returned.
PositionIn(page, event) == CHOOSE i \in 1..Len(page) : page[i] = event

\* The records of a page iterated last record first.
RECURSIVE Payloads_last_first(_)
Payloads_last_first(page) ==
  IF page = <<>> THEN <<>>
  ELSE IF Head(page).kind = "nopayload" THEN Payloads_last_first(Tail(page))
  ELSE Payloads_last_first(Tail(page)) \o <<Head(page)>>

\* Event.payload is an Option: filter_map(|event| event.payload).
RECURSIVE Payloads(_)
Payloads(page) ==
  IF page = <<>> THEN <<>>
  ELSE IF Head(page).kind = "nopayload" THEN Payloads(Tail(page))
  ELSE <<Head(page)>> \o Payloads(Tail(page))

\* The records of a response iterated whether or not the request had an etag.
payload_iter_ignores_cursor(cursor, value) ==
  IF ~value.some THEN <<>> ELSE Payloads(value.page)

\* etag.and(events.value): the records of a response are iterated only when
\* the request carried an etag.
payload_iter(cursor, value) ==
  IF cursor = NoEtag \/ ~value.some THEN <<>> ELSE Payloads(value.page)

\* A fresh entity tag: the tag minted for the n-th answer is n.
FreshEtag == polls + 1

Snapshot == [announced |-> announced_contributors, etag |-> etag,
             forwarded |-> forwarded, chan |-> chan]

\* The run of consecutive "no new data" answers that repeat the request's
\* cursor: the states before the run's last two polls.
NextRun(kind, resp) ==
  IF kind = "not_modified" /\ resp = etag
  THEN IF nd.streak = 0
       THEN [streak |-> 1, first |-> Snapshot, second |-> Snapshot]
       ELSE [streak |-> 2, first |-> nd.second, second |-> Snapshot]
  ELSE NoRun

\* A cursor kept when the answer carries no etag header.
EndOfResponse_keeps_cursor_without_header(response) ==
  /\ etag' = IF response.etag = NoEtag THEN etag ELSE response.etag
  /\ poll_pc' = "sleep"

\* A cursor taken only from an answer that has a body.
EndOfResponse_cursor_needs_value(response) ==
  /\ etag' = IF response.value.some THEN response.etag ELSE NoEtag
  /\ poll_pc' = "sleep"

\* `etag = events.etag;` after the for loop, then sleep(poll_frequency).
EndOfResponse(response) ==
  /\ etag' = response.etag
  /\ poll_pc' = "sleep"

\* The cursor assigned before the records are sent.
BeginForwarding_advances_cursor(response) ==
  /\ poll_pc' = "send"
  /\ events' = response
  /\ etag' = response.etag

\* `for payload in payload_iter`: the first send is awaited.
BeginForwarding(response) ==
  /\ poll_pc' = "send"
  /\ events' = response
  /\ etag' = etag

\* The cursor lost on a failed fetch.
FetchError_forgets_cursor ==
  /\ etag' = NoEtag
  /\ poll_pc' = IF exit_on_poll_error THEN "stopped" ELSE "sleep"

\* Err(error): logged; break when exit_on_poll_error, else on to the sleep.
FetchError ==
  /\ etag' = etag
  /\ poll_pc' = IF exit_on_poll_error THEN "stopped" ELSE "sleep"

\* fetch_event_page fails.
PollFails ==
  /\ poll_pc = "fetch"
  /\ polls < MaxPolls
  /\ polls' = polls + 1
  /\ last_poll' = [n |-> polls + 1, kind |-> "error", req |-> etag,
                   resp |-> NoEtag, total |-> 0, sent |-> 0]
  /\ nd' = NoRun
  /\ FetchError
  /\ UNCHANGED <<cfgVars, seedVars, events, forwarded, xVars, postVars,
                 rateVars, webVars, posted, pureVars, start_pc,
                 announced_contributors, chan, receiver_alive, tweets,
                 last_class>>

\* 304 Not Modified, the answer to a conditional request: Etagged {etag, value: None}
\* with whatever etag header the answer carries (the same, another, none).
PollNotModified ==
  /\ poll_pc = "fetch"
  /\ polls < MaxPolls
  /\ etag # NoEtag
  /\ \E tag \in {NoEtag, etag, FreshEtag} :
       /\ polls' = polls + 1
       /\ last_poll' = [n |-> polls + 1, kind |-> "not_modified", req |-> etag,
                        resp |-> tag, total |-> 0, sent |-> 0]
       /\ nd' = NextRun("not_modified", tag)
       /\ EndOfResponse([etag |-> tag, value |-> NoValue, pending |-> <<>>])
  /\ UNCHANGED <<cfgVars, seedVars, events, forwarded, xVars, postVars,
                 rateVars, webVars, posted, pureVars, start_pc,
                 announced_contributors, chan, receiver_alive, tweets,
                 last_class>>

\* 200 with a page of events and a new etag header (or none).
PollOk ==
  /\ poll_pc = "fetch"
  /\ polls < MaxPolls
  /\ \E tag \in {NoEtag, FreshEtag}, page \in EventPages :
       LET value == [some |-> TRUE, page |-> page]
           response == [etag |-> tag, value |-> value,
                        pending |-> payload_iter(etag, value)]
       IN /\ polls' = polls + 1
          /\ last_poll' = [n |-> polls + 1, kind |-> "ok", req |-> etag,
                           resp |-> tag, total |-> Len(Payloads(page)), sent |-> 0]
          /\ nd' = NoRun
          /\ IF response.pending = <<>>
             THEN /\ EndOfResponse(response)
                  /\ events' = NoEvents
             ELSE BeginForwarding(response)
  /\ UNCHANGED <<cfgVars, seedVars, forwarded, xVars, postVars, rateVars,
                 webVars, posted, pureVars, start_pc, announced_contributors,
                 chan, receiver_alive, tweets, last_class>>

\* sender.send(payload).await completes once the channel has room; after the
\* last payload the loop is left and the cursor assigned.
SendPayload ==
  /\ poll_pc = "send"
  /\ receiver_alive
  /\ Len(chan) < ChannelCapacity
  /\ chan' = Append(chan, [resp |-> last_poll.n,
                           pos |-> PositionIn(events.value.page, Head(events.pending)),
                           event |-> Head(events.pending)])
  /\ forwarded' = forwarded + 1
  /\ last_poll' = [last_poll EXCEPT !.sent = @ + 1]
  /\ IF Tail(events.pending) = <<>>
     THEN /\ EndOfResponse(events)
          /\ events' = NoEvents
     ELSE /\ events' = [events EXCEPT !.pending = Tail(@)]
          /\ UNCHANGED <<poll_pc, etag>>
  /\ UNCHANGED <<cfgVars, seedVars, polls, nd, xVars, postVars, rateVars,
                 webVars, posted, pureVars, start_pc, announced_contributors,
                 receiver_alive, tweets, last_class>>

\* sender.send(payload).await is an Err once the receiver is gone: `break`
\* leaves the for loop, and the cursor is assigned all the same.
SendFails ==
  /\ poll_pc = "send"
  /\ ~receiver_alive
  /\ EndOfResponse(events)
  /\ events' = NoEvents
  /\ UNCHANGED <<cfgVars, seedVars, pollLog, xVars, postVars, rateVars,
                 webVars, posted, pureVars, start_pc, announced_contributors,
                 chan, receiver_alive, tweets, last_class>>

\* sleep(self.poll_frequency).await is over.
Wake ==
  /\ poll_pc = "sleep"
  /\ poll_pc' = "fetch"
  /\ UNCHANGED <<cfgVars, seedVars, etag, events, pollLog, xVars, postVars,
                 rateVars, webVars, posted, pureVars, start_pc,
                 announced_contributors, chan, receiver_alive, tweets,
                 last_class>>

\* ------------------------------------------------- bot.rs: the consumer

\* filter_github_event on the ledger, and the record of the call.
Classified(received) ==
  LET r == filter_github_event(announced_contributors, received.event)
  IN /\ announced_contributors' = r.announced
     /\ last_class' = [event |-> received.event,
                       at |-> [resp |-> received.resp, pos |-> received.pos],
                       before |-> announced_contributors,
                       after |-> r.announced, announcement |-> r.announcement]

\* One turn of `while let Some(event) = receiver.recv().await`: classify, tweet.
Consume ==
  /\ start_pc = "consuming"
  /\ receiver_alive
  /\ chan # <<>>
  /\ Classified(Head(chan))
  /\ tweets' = tweet_announcement(tweets, last_class'.announcement)
  /\ posted' = PostTweetRequests(last_class'.announcement)
  /\ chan' = Tail(chan)
  /\ UNCHANGED <<cfgVars, seedVars, pollVars, pollLog, xVars, postVars,
                 rateVars, webVars, pureVars, start_pc, receiver_alive>>

\* recv() answering None as soon as the sender is gone, the buffer discarded.
ConsumerEnds_discards_buffer ==
  /\ start_pc = "consuming"
  /\ receiver_alive
  /\ poll_pc = "stopped"
  /\ start_pc' = "returned"
  /\ receiver_alive' = FALSE
  /\ chan' = <<>>
  /\ UNCHANGED <<cfgVars, seedVars, pollVars, pollLog, xVars, postVars,
                 rateVars, webVars, posted, pureVars, announced_contributors,
                 tweets, last_class>>

\* recv() is None once the poll loop has ended (sender dropped) and the
\* channel is drained: bot::start returns Ok(()).
ConsumerEnds ==
  /\ start_pc = "consuming"
  /\ receiver_alive
  /\ chan = <<>>
  /\ poll_pc = "stopped"
  /\ start_pc' = "returned"
  /\ receiver_alive' = FALSE
  /\ UNCHANGED <<cfgVars, seedVars, pollVars, pollLog, xVars, postVars,
                 rateVars, webVars, posted, pureVars, announced_contributors,
                 chan, tweets, last_class>>

\* The caller drops the future of bot::start at its recv().await (shutdown):
\* the receiver and what it buffers are dropped.
DropReceiver ==
  /\ start_pc = "consuming"
  /\ receiver_alive
  /\ start_pc' = "dropped"
  /\ receiver_alive' = FALSE
  /\ chan' = <<>>
  /\ UNCHANGED <<cfgVars, seedVars, pollVars, pollLog, xVars, postVars,
                 rateVars, webVars, posted, pureVars, announced_contributors,
                 tweets, last_class>>

\* ------------------------------------------------- specifications

\* bot::start is run on a history of commits by alice.
Histories == SeqsUpTo({"alice"}, MaxHistory)

\* The parts of the state a specification does not use.
IdleBot ==
  /\ exit_on_poll_error = FALSE
  /\ per_page = 2
  /\ history = <<>>
  /\ start_pc = "idle"
  /\ page_index = 0
  /\ has_next_page = TRUE
  /\ seeded = {}
  /\ poll_pc = "idle"
  /\ etag = NoEtag
  /\ events = NoEvents
  /\ chan = <<>>
  /\ receiver_alive = FALSE
  /\ polls = 0
  /\ forwarded = 0
  /\ last_poll = NoPoll
  /\ nd = NoRun
  /\ tweets = NoTweets
  /\ last_class = NoClass
  /\ posted = <<>>

IdleX ==
  /\ tweet_count = 0
  /\ window_start = 0
  /\ now = 0

IdlePure ==
  /\ in_event = OtherEvent(0)
  /\ hook = NoHook
  /\ calls = <<>>

IdleRate ==
  /\ rate = NoRate
  /\ senders = NoSenders

IdleWeb ==
  /\ web = NoWeb
  /\ mgr = NoMgr
  /\ locks = NoLocks

IdlePost ==
  /\ max_attempts = 1
  /\ post = NoPost
  /\ outbox = <<>>
  /\ deliveries = 0

\* bot::start(config) is entered.
Init ==
  /\ IdleRate
  /\ IdleWeb
  /\ exit_on_poll_error \in BOOLEAN
  /\ per_page = 2
  /\ history \in Histories
  /\ start_pc = "seeding"
  /\ page_index = 0
  /\ has_next_page = TRUE
  /\ announced_contributors = {}
  /\ seeded = {}
  /\ poll_pc = "idle"
  /\ etag = NoEtag
  /\ events = NoEvents
  /\ chan = <<>>
  /\ receiver_alive = TRUE
  /\ polls = 0
  /\ forwarded = 0
  /\ last_poll = NoPoll
  /\ nd = NoRun
  /\ tweets = NoTweets
  /\ last_class = NoClass
  /\ posted = <<>>
  /\ IdleX
  /\ IdlePure
  /\ IdlePost

Next ==
  \/ SeedPage
  \/ SeedFails
  \/ PollFails
  \/ PollNotModified
  \/ PollOk
  \/ SendPayload
  \/ Wake
  \/ Consume
  \/ ConsumerEnds

Spec == Init /\ [][Next]_vars

\* bot::start configured to stop polling at the first failed fetch. The
\* runtime schedules the consumer task whenever recv() can complete.
InitExit == Init /\ exit_on_poll_error

SpecExit ==
  InitExit /\ [][Next]_vars /\ WF_vars(Consume) /\ WF_vars(ConsumerEnds)

NextShutdown ==
  \/ Next
  \/ DropReceiver
  \/ SendFails

SpecShutdown == Init /\ [][NextShutdown]_vars

\* The loop goes on fetching after the receiver is gone. Beyond the MaxPolls
\* fetches the log records, a fetch of the orphaned loop is taken in one step:
\* it fails, or it is answered and whatever send follows fails; no payload can
\* reach a consumer any more.
PollUnlogged ==
  /\ poll_pc = "fetch"
  /\ polls = MaxPolls
  /\ ~receiver_alive
  /\ \/ FetchError
     \/ \E tag \in {NoEtag, etag} :
          EndOfResponse([etag |-> tag, value |-> NoValue, pending |-> <<>>])
  /\ UNCHANGED <<cfgVars, seedVars, events, pollLog, xVars, postVars,
                 rateVars, webVars, posted, pureVars, start_pc,
                 announced_contributors, chan, receiver_alive, tweets,
                 last_class>>

\* Every fetch is answered, every sleep ends, every send completes or fails,
\* and the consumer is scheduled: the tasks of the runtime make progress.
Fetch == PollFails \/ PollNotModified \/ PollOk \/ PollUnlogged

NextCancel ==
  \/ NextShutdown
  \/ PollUnlogged

SpecShutdownFair ==
  /\ Init /\ [][NextCancel]_vars
  /\ WF_vars(Fetch) /\ WF_vars(Wake) /\ WF_vars(SendPayload) /\ WF_vars(SendFails)
  /\ WF_vars(Consume) /\ WF_vars(ConsumerEnds)

\* ------------------------------------------------- x.rs: post_tweet

\* What send_post answers: 2xx, a 4xx status, a 5xx status, or no response at
\* all (connection error, timeout). error_for_status turns 4xx and 5xx into Err.
SendStatuses == {"ok", "client_error", "server_error", "network_error"}

\* Every failure taken for a transient one.
GivesUpOn_nothing(status) == FALSE

\* error.status().filter(|status| status.is_client_error()).is_some(): break.
GivesUpOn(status) == status = "client_error"

\* The same pause before every retry.
Backoff_constant(attempts) == 3

\* sleep(Duration::from_secs(3 * attempts))
Backoff(attempts) == 3 * attempts

\* A post that was given up returned to bot::start as an error.
PostReturns_fatal(call, result) ==
  /\ post' = [call EXCEPT !.pc = "idle", !.result = result,
                          !.given_up = IF result = "gave_up" THEN @ + 1 ELSE @]
  /\ start_pc' = IF result = "gave_up" THEN "failed" ELSE start_pc
  /\ receiver_alive' = (result # "gave_up")

\* post_tweet returns (): after Ok(response), or after "Gave up trying to
\* tweet"; tweet_announcement goes on and returns Ok(()).
PostReturns(call, result) ==
  /\ post' = [call EXCEPT !.pc = "idle", !.result = result,
                          !.given_up = IF result = "gave_up" THEN @ + 1 ELSE @]
  /\ start_pc' = start_pc
  /\ receiver_alive' = receiver_alive

\* The events the channel delivers in SpecPost.
PostEvents ==
  { PushEvent(1, << <<"alice", TRUE>>, <<"bob", TRUE>> >>),
    ReleaseEvent(3, "published", Rel1),
    OtherEvent(4) }

\* The poll loop's send, seen from the consumer: an event enters the channel.
Deliver ==
  /\ start_pc = "consuming"
  /\ deliveries < MaxDeliveries
  /\ Len(chan) < ChannelCapacity
  /\ \E e \in PostEvents :
       chan' = Append(chan, [resp |-> deliveries + 1, pos |-> 1, event |-> e])
  /\ deliveries' = deliveries + 1
  /\ UNCHANGED <<cfgVars, seedVars, pollVars, pollLog, xVars, pureVars,
                 rateVars, webVars, max_attempts, post, outbox, posted,
                 start_pc, announced_contributors, receiver_alive, tweets,
                 last_class>>

\* recv() yields an event once tweet_announcement has returned for the one
\* before: it is classified, and its announcement is about to be tweeted.
Receive ==
  /\ start_pc = "consuming"
  /\ receiver_alive
  /\ chan # <<>>
  /\ post.pc = "idle"
  /\ outbox = <<>>
  /\ Classified(Head(chan))
  /\ outbox' = PostTweetRequests(last_class'.announcement)
  /\ posted' = <<>>
  /\ chan' = Tail(chan)
  /\ UNCHANGED <<cfgVars, seedVars, pollVars, pollLog, xVars, pureVars,
                 rateVars, webVars, max_attempts, post, deliveries, start_pc,
                 receiver_alive, tweets>>

\* x_client.post_tweet(request) is called for the next request: attempt 1.
BeginPost ==
  /\ start_pc = "consuming"
  /\ post.pc = "idle"
  /\ outbox # <<>>
  /\ post' = [pc |-> "send", attempts |-> 1, statuses |-> <<>>,
              delays |-> <<>>, result |-> "none", given_up |-> post.given_up]
  /\ posted' = Append(posted, Head(outbox))
  /\ outbox' = Tail(outbox)
  /\ tweets' = IF Head(outbox).kind = "Contributor"
               THEN [tweets EXCEPT !.contributor[Head(outbox).name] = @ + 1]
               ELSE [tweets EXCEPT !.release[Head(outbox).url] = @ + 1]
  /\ UNCHANGED <<cfgVars, seedVars, pollVars, pollLog, xVars, pureVars,
                 rateVars, webVars, max_attempts, deliveries, start_pc,
                 announced_contributors, chan, receiver_alive, last_class>>

\* One send_post: return on Ok, break on a client error, else sleep.
SendPost ==
  /\ post.pc = "send"
  /\ \E status \in SendStatuses :
       LET sent == [post EXCEPT !.statuses = Append(@, status)]
       IN IF status = "ok"
          THEN PostReturns(sent, "posted")
          ELSE IF GivesUpOn(status)
          THEN PostReturns(sent, "gave_up")
          ELSE /\ post' = [sent EXCEPT !.pc = "sleep",
                                       !.delays = Append(@, Backoff(post.attempts))]
               /\ UNCHANGED <<start_pc, receiver_alive>>
  /\ UNCHANGED <<cfgVars, seedVars, pollVars, pollLog, xVars, pureVars,
                 rateVars, webVars, max_attempts, outbox, deliveries, posted,
                 announced_contributors, chan, tweets, last_class>>

\* The sleep after a failed attempt is over: the next attempt, or, after the
\* last one, "Gave up trying to tweet".
EndSleep ==
  /\ post.pc = "sleep"
  /\ IF post.attempts < max_attempts
     THEN /\ post' = [post EXCEPT !.pc = "send", !.attempts = @ + 1]
          /\ UNCHANGED <<start_pc, receiver_alive>>
     ELSE PostReturns(post, "gave_up")
  /\ UNCHANGED <<cfgVars, seedVars, pollVars, pollLog, xVars, pureVars,
                 rateVars, webVars, max_attempts, outbox, deliveries, posted,
                 announced_contributors, chan, tweets, last_class>>

\* The consumer loop of bot::start with a seeded ledger and an x::Client of
\* max_attempts = max_retries + 1 (1 when max_retries is not configured).
InitPost ==
  /\ IdleRate
  /\ IdleWeb
  /\ exit_on_poll_error = FALSE
  /\ per_page = 2
  /\ history = <<>>
  /\ start_pc = "consuming"
  /\ page_index = 0
  /\ has_next_page = FALSE
  /\ announced_contributors \in {{}, {"alice"}}
  /\ seeded = announced_contributors
  /\ poll_pc = "idle"
  /\ etag = NoEtag
  /\ events = NoEvents
  /\ chan = <<>>
  /\ receiver_alive = TRUE
  /\ polls = 0
  /\ forwarded = 0
  /\ last_poll = NoPoll
  /\ nd = NoRun
  /\ tweets = NoTweets
  /\ last_class = NoClass
  /\ posted = <<>>
  /\ IdleX
  /\ IdlePure
  /\ max_attempts \in 1..MaxAttempts
  /\ post = NoPost
  /\ outbox = <<>>
  /\ deliveries = 0

NextPost ==
  \/ Deliver
  \/ Receive
  \/ BeginPost
  \/ SendPost
  \/ EndSleep

SpecPost == InitPost /\ [][NextPost]_vars

\* Every request is answered, every sleep ends, the consumer task is scheduled.
SpecPostFair ==
  /\ SpecPost
  /\ WF_vars(Receive) /\ WF_vars(BeginPost) /\ WF_vars(SendPost) /\ WF_vars(EndSleep)

\* ------------------------------------------------- x/client.rs: post_with_retry

\* The same pause before every retry.
RetryDelay_fixed(attempt) == 2

\* sleep(Duration::from_secs(attempt as u64 * 2))
RetryDelay(attempt) == attempt * 2

\* One turn of `for attempt in 1..=MAX_RETRIES`: send_tweet; Ok(id) is
\* returned at once; an Err is followed by a sleep when attempts remain, and
\* after the last attempt the loop is left and Err returned.
RetrySend ==
  /\ post.pc = "send"
  /\ \E outcome \in ApiOutcomes :
       LET r == send_tweet([tweet_count |-> tweet_count,
                            window_start |-> window_start], now, outcome)
           sent == [post EXCEPT !.statuses = Append(@, outcome)]
       IN /\ tweet_count' = r.tweet_count
          /\ window_start' = r.window_start
          /\ now' = r.now
          /\ post' = IF r.ret = "Ok"
                     THEN [sent EXCEPT !.pc = "idle", !.result = "Ok"]
                     ELSE IF post.attempts < MAX_RETRIES
                     THEN [sent EXCEPT !.pc = "sleep",
                                       !.delays = Append(@, RetryDelay(post.attempts))]
                     ELSE [sent EXCEPT !.pc = "idle", !.result = "Err"]
  /\ UNCHANGED <<cfgVars, seedVars, pollVars, pollLog, pureVars, rateVars,
                 webVars, max_attempts, outbox, deliveries, posted, start_pc,
                 announced_contributors, chan, receiver_alive, tweets,
                 last_class>>

\* The sleep before the next attempt is over.
RetrySleep ==
  /\ post.pc = "sleep"
  /\ now' = now + post.delays[Len(post.delays)]
  /\ post' = [post EXCEPT !.pc = "send", !.attempts = @ + 1]
  /\ UNCHANGED <<cfgVars, seedVars, pollVars, pollLog, pureVars, rateVars,
                 webVars, max_attempts, outbox, deliveries, posted, start_pc,
                 announced_contributors, chan, receiver_alive, tweets,
                 last_class, tweet_count, window_start>>

\* post_with_retry(text) is entered, at some point of the rate-limit window.
InitRetry ==
  /\ IdleRate
  /\ IdleWeb
  /\ IdleBot
  /\ IdlePure
  /\ max_attempts = 1
  /\ outbox = <<>>
  /\ deliveries = 0
  /\ post = [NoPost EXCEPT !.pc = "send", !.attempts = 1]
  /\ announced_contributors = {}
  /\ window_start = 0
  /\ tweet_count \in {0, TWEETS_PER_WINDOW - 1, TWEETS_PER_WINDOW}
  /\ now \in {0, RATE_LIMIT_WINDOW - 1, RATE_LIMIT_WINDOW}

NextRetry ==
  \/ RetrySend
  \/ RetrySleep

SpecRetry == InitRetry /\ [][NextRetry]_vars

\* ------------------------------------------------- x/client.rs: SpecWindow

\* Time passes between two calls: half a window, or a whole window.
TimeSteps == {RATE_LIMIT_WINDOW \div 2, RATE_LIMIT_WINDOW}

Tick ==
  /\ \E d \in TimeSteps :
       /\ now + d <= MaxClock
       /\ now' = now + d
  /\ UNCHANGED <<cfgVars, seedVars, pollVars, pollLog, postVars, rateVars,
                 webVars, posted, pureVars, start_pc, announced_contributors,
                 chan, receiver_alive, tweets, last_class, tweet_count,
                 window_start>>

\* One call of send_tweet, returned before the next is made.
SendTweetCall ==
  /\ rate.calls < MaxSends
  /\ now <= MaxClock
  /\ \E outcome \in ApiOutcomes :
       LET r == send_tweet([tweet_count |-> tweet_count,
                            window_start |-> window_start], now, outcome)
       IN /\ tweet_count' = r.tweet_count
          /\ window_start' = r.window_start
          /\ now' = r.now
          /\ rate' = [calls |-> rate.calls + 1,
                      waits |-> IF r.now > now THEN rate.waits + 1 ELSE rate.waits,
                      last |-> [t |-> now, window_start |-> window_start,
                                tweet_count |-> tweet_count, outcome |-> outcome,
                                reached |-> r.now, count_after |-> r.tweet_count,
                                ret |-> r.ret]]
  /\ UNCHANGED <<cfgVars, seedVars, pollVars, pollLog, postVars, senders,
                 webVars, posted, pureVars, start_pc, announced_contributors,
                 chan, receiver_alive, tweets, last_class>>

\* XClient::new: an empty window that starts now.
InitWindow ==
  /\ IdleBot
  /\ IdlePure
  /\ IdlePost
  /\ IdleRate
  /\ IdleWeb
  /\ IdleX
  /\ announced_contributors = {}

NextWindow ==
  \/ Tick
  \/ SendTweetCall

SpecWindow == InitWindow /\ [][NextWindow]_vars

\* ------------------------------------------------- x/client.rs: SpecRace

\* Requests handled concurrently share one Arc<XClient>; each call of
\* send_tweet reads the clock and the two counters, decides, and later sends.
Senders == 1..MaxSenders

IdleSender == [pc |-> "idle", now |-> 0, window_start |-> 0, tweet_count |-> 0,
               calls |-> 0]

OtherParts ==
  <<cfgVars, seedVars, pollVars, pollLog, postVars, rate, webVars, posted,
    pureVars, start_pc, announced_contributors, chan, receiver_alive, tweets,
    last_class>>

\* Time passes while requests are being served.
RaceTick ==
  /\ now + RATE_LIMIT_WINDOW \div 2 <= MaxClock
  /\ now' = now + RATE_LIMIT_WINDOW \div 2
  /\ UNCHANGED <<OtherParts, senders, window_start, tweet_count>>

\* let now = Utc::now().timestamp() as u64;
RaceClock(i) ==
  /\ senders[i].pc = "idle"
  /\ senders[i].calls < MaxRaceCalls
  /\ senders' = [senders EXCEPT ![i] =
                   [@ EXCEPT !.pc = "load", !.now = now, !.calls = @ + 1]]
  /\ UNCHANGED <<OtherParts, xVars>>

\* window_start.load(Relaxed), tweet_count.load(Relaxed).
RaceLoad(i) ==
  /\ senders[i].pc = "load"
  /\ senders' = [senders EXCEPT ![i] =
                   [@ EXCEPT !.pc = "check", !.window_start = window_start,
                             !.tweet_count = tweet_count]]
  /\ UNCHANGED <<OtherParts, xVars>>

\* `now - window_start` on u64: when window_start exceeds now the subtraction
\* panics in a build with overflow checks, and wraps to a value near 2^64,
\* which is at least RATE_LIMIT_WINDOW, in a build without.
\* The window has expired: both counters are stored and the call goes on to
\* send; the count is at capacity: the call sleeps; else it goes on to send.
RaceCheck(i) ==
  /\ senders[i].pc = "check"
  /\ LET me == senders[i]
     IN \/ /\ me.now < me.window_start
           /\ UNCHANGED <<window_start, tweet_count>>
           /\ senders' = [senders EXCEPT ![i].pc = "panicked"]
        \/ /\ me.now < me.window_start \/ me.now - me.window_start >= RATE_LIMIT_WINDOW
           /\ window_start' = me.now
           /\ tweet_count' = 0
           /\ senders' = [senders EXCEPT ![i].pc = "send"]
        \/ /\ me.now >= me.window_start
           /\ me.now - me.window_start < RATE_LIMIT_WINDOW
           /\ UNCHANGED <<window_start, tweet_count>>
           /\ senders' = [senders EXCEPT ![i].pc =
                            IF me.tweet_count >= TWEETS_PER_WINDOW
                            THEN "sleep" ELSE "send"]
  /\ UNCHANGED <<OtherParts, now>>

\* The sleep to the window's end is over: window_start.store(now),
\* tweet_count.store(0), with the time read before the sleep.
RaceWake(i) ==
  /\ senders[i].pc = "sleep"
  /\ LET me == senders[i]
     IN /\ now' = Max(now, me.window_start + RATE_LIMIT_WINDOW)
        /\ window_start' = me.now
        /\ tweet_count' = 0
        /\ senders' = [senders EXCEPT ![i].pc = "send"]
  /\ UNCHANGED OtherParts

\* The request to the API and its answer: tweet_count.fetch_add(1) when the
\* API accepted the post.
RaceSend(i) ==
  /\ senders[i].pc = "send"
  /\ \E outcome \in ApiOutcomes :
       tweet_count' = IF outcome \in {"created", "created_no_data"}
                      THEN tweet_count + 1 ELSE tweet_count
  /\ senders' = [senders EXCEPT ![i].pc = "idle"]
  /\ UNCHANGED <<OtherParts, window_start, now>>

\* An XClient some way into its first window: the count is what sequential
\* calls have made it.
InitRace ==
  /\ IdleBot
  /\ IdlePure
  /\ IdlePost
  /\ announced_contributors = {}
  /\ IdleWeb
  /\ rate = NoRate
  /\ senders = [i \in Senders |-> IdleSender]
  /\ window_start = 0
  /\ now \in {0, RATE_LIMIT_WINDOW \div 2}
  /\ tweet_count \in {0, TWEETS_PER_WINDOW - 2, TWEETS_PER_WINDOW - 1,
                       TWEETS_PER_WINDOW}

NextRace ==
  \/ RaceTick
  \/ \E i \in Senders :
       \/ RaceClock(i)
       \/ RaceLoad(i)
       \/ RaceCheck(i)
       \/ RaceWake(i)
       \/ RaceSend(i)

SpecRace == InitRace /\ [][NextRace]_vars

\* ------------------------------------------------- webhook/handler.rs: SpecWebhook

\* The x-github-event header of a request: absent, present with bytes that
\* are not visible ASCII (to_str fails), or a readable event type.
NoHeader == "<absent>"
UnreadableHeader == "<not ascii>"
EventTypes == {"ping", "push", "release", "delete"}
Headers == {NoHeader, UnreadableHeader} \cup EventTypes

\* The repository owner's login, and the usernames of commit authors.
Owner == "delta-io"
NoUsername == "<no username>"
Usernames == {NoUsername, Owner, "alice", "bob"}

\* A ref as its path segments: refs/heads/main is <<"refs", "heads", "main">>.
Refs == { <<"refs", "heads", "main">>, <<"refs", "heads", "master">>,
          <<"refs", "heads", "dev">>, <<"refs", "tags", "main">> }

\* git_ref.ends_with("/main"): the last of several segments is main.
EndsWith(git_ref, branch) ==
  Len(git_ref) >= 2 /\ git_ref[Len(git_ref)] = branch

\* The bodies of the requests: a ping, pushes, releases, and a body that is
\* JSON of none of the three shapes.
PingBody == [kind |-> "ping"]
PushBody(git_ref, names) ==
  [kind |-> "push", git_ref |-> git_ref, owner |-> Owner,
   commits |-> [i \in 1..Len(names) |->
                  [username |-> names[i], message |-> i, url |-> i]]]
MalformedBody == [kind |-> "malformed"]

Bodies ==
  {PingBody, MalformedBody}
    \cup {PushBody(r, ns) : r \in Refs, ns \in SeqsUpTo(Usernames, MaxCommits)}
    \cup {ReleaseEvent(9, a, r) : a \in {"published", "created"}, r \in Releases}

\* headers.get("x-github-event").and_then(|h| h.to_str().ok())
\*   .ok_or(StatusCode::BAD_REQUEST)
EventType(request) ==
  IF request.event_type \in {NoHeader, UnreadableHeader}
  THEN [ok |-> FALSE, status |-> 400]
  ELSE [ok |-> TRUE, event_type |-> request.event_type]

\* serde_json::from_str::<T>(&body): the body has the fields of T or it has not.
from_str(type, body) == body.kind = type

\* A handler's error answered like its success.
HandlerStatus_ok(ret) == 200

\* handler(..).await.map_err(|e| StatusCode::INTERNAL_SERVER_ERROR)?; Ok(OK)
HandlerStatus(ret) == IF ret = "Err" THEN 500 ELSE 200

\* handle_webhook returns status.
Responds(w, status) == [w EXCEPT !.pc = "done", !.status = status]

\* handle_push has gone through `commits`: the loop takes the next commit, or
\* handle_push returns Ok(()) and handle_webhook answers.
NextCommit(w, commits) ==
  IF commits = <<>>
  THEN Responds([w EXCEPT !.handler_ret = "Ok", !.commits = <<>>],
                HandlerStatus("Ok"))
  ELSE [w EXCEPT !.pc = "push", !.commits = commits]

\* handle_webhook up to the first await of a handler that posts: the header,
\* the match on the event type, the parse of the body; handle_release as a
\* whole; handle_push up to its loop over the commits.
HandleWebhook ==
  /\ web.pc = "received"
  /\ LET type == EventType(web.request)
         body == web.request.body
     IN IF ~type.ok
        THEN /\ web' = Responds(web, type.status)
             /\ UNCHANGED xVars
        ELSE IF type.event_type \notin {"ping", "push", "release"}
        THEN /\ web' = Responds(web, 501)
             /\ UNCHANGED xVars
        ELSE IF ~from_str(type.event_type, body)
        THEN /\ web' = Responds(web, 422)
             /\ UNCHANGED xVars
        ELSE IF type.event_type = "ping"
        THEN /\ web' = Responds(web, 200)
             /\ UNCHANGED xVars
        ELSE IF type.event_type = "release"
        THEN \E outcome \in ApiOutcomes :
               LET r == handle_release(body, [tweet_count |-> tweet_count,
                                              window_start |-> window_start],
                                       now, outcome)
               IN /\ tweet_count' = r.tweet_count
                  /\ window_start' = r.window_start
                  /\ now' = r.now
                  /\ web' = Responds([web EXCEPT !.called = "handle_release",
                                                 !.handler_ret = r.ret,
                                                 !.posts = r.posts],
                                     HandlerStatus(r.ret))
        ELSE /\ UNCHANGED xVars
             /\ LET called == [web EXCEPT !.called = "handle_push"]
                IN web' = IF ~EndsWith(body.git_ref, "main")
                             /\ ~EndsWith(body.git_ref, "master")
                          THEN Responds([called EXCEPT !.handler_ret = "Ok"],
                                        HandlerStatus("Ok"))
                          ELSE NextCommit(called, body.commits)
  /\ UNCHANGED <<cfgVars, seedVars, pollVars, pollLog, postVars, rateVars,
                 posted, pureVars, start_pc, announced_contributors, chan,
                 receiver_alive, tweets, last_class, mgr, locks>>

\* ------------------------------------------------- github/contributor.rs

\* GitHubClient::new: ContributorManager::new(.., 300).
CACHE_TTL == 300

\* The authors with commits in the repository.
Contributors == {"alice", "bob"}

\* list_commits().per_page(100).send(): an error, or the authors of the
\* commits listed; the authors the repository had when the manager was
\* constructed are among them.
FetchFailed == [ok |-> FALSE, authors |-> {}]
Fetches(m) ==
  {FetchFailed}
    \cup {[ok |-> TRUE, authors |-> page] :
            page \in {a \in SUBSET Contributors : m.history \subseteq a}}

\* The time of a failed refresh recorded as the last refresh.
refresh_cache_stamps_failure(m, t, fetched) ==
  IF ~fetched.ok
  THEN [ok |-> FALSE, cache |-> m.cache, last_refresh |-> t]
  ELSE [ok |-> TRUE, cache |-> fetched.authors, last_refresh |-> t]

\* refresh_cache: `.send().await?` returns the error before the cache is
\* touched; else *cache = new_cache and last_refresh = Utc::now().
refresh_cache(m, t, fetched) ==
  IF ~fetched.ok
  THEN [ok |-> FALSE, cache |-> m.cache, last_refresh |-> m.last_refresh]
  ELSE [ok |-> TRUE, cache |-> fetched.authors, last_refresh |-> t]

\* (now - last_refresh).num_seconds() as u64 > self.cache_ttl
Expired(m, t) == t - m.last_refresh > CACHE_TTL

refresh_cache_if_needed(m, t, fetched) ==
  IF Expired(m, t) THEN refresh_cache(m, t, fetched)
  ELSE [ok |-> TRUE, cache |-> m.cache, last_refresh |-> m.last_refresh]

\* ContributorManager::is_first_contribution (reached through
\* GitHubClient::is_first_contribution): Err of the refresh, or
\* Ok(!cache.contains_key(username)).
check_first_contribution(m, t, username, fetched) ==
  LET r == refresh_cache_if_needed(m, t, fetched)
      ret == IF ~r.ok THEN "error"
             ELSE IF username \notin r.cache THEN "first" ELSE "known"
  IN [m EXCEPT !.cache = r.cache, !.last_refresh = r.last_refresh,
               !.last = [n |-> m.last.n + 1, username |-> username, t |-> t,
                         expired |-> Expired(m, t), ret |-> ret,
                         cache |-> m.cache, last_refresh |-> m.last_refresh]]

\* One turn of `for commit in event.commits`: a commit without username and a
\* commit of the repository owner are passed over; for any other the GitHub
\* client is asked, which may refresh the contributors cache; its error ends
\* handle_push (`?`), and a first-time contributor's tweet is handed to
\* post_with_retry.
PushCommit ==
  /\ web.pc = "push"
  /\ LET commit == Head(web.commits)
         rest == Tail(web.commits)
     IN IF commit.username = NoUsername \/ commit.username = web.request.body.owner
        THEN /\ web' = NextCommit(web, rest)
             /\ UNCHANGED <<post, mgr>>
        ELSE \E fetched \in Fetches(mgr) :
               LET checked == check_first_contribution(mgr, now,
                                                       commit.username, fetched)
                   answer == checked.last.ret
                   asked == [web EXCEPT !.checks =
                               Append(@, [username |-> commit.username,
                                          answer |-> answer])]
               IN /\ mgr' = checked
                  /\ IF answer = "error"
                     THEN /\ web' = Responds([asked EXCEPT !.handler_ret = "Err"],
                                             HandlerStatus("Err"))
                          /\ UNCHANGED post
                     ELSE IF answer = "known"
                     THEN /\ web' = NextCommit(asked, rest)
                          /\ UNCHANGED post
                     ELSE /\ web' = [asked EXCEPT
                                       !.pc = "posting",
                                       !.posts = Append(@,
                                          [kind |-> "Contributor",
                                           name |-> commit.username,
                                           commit_message |-> commit.message,
                                           url |-> commit.url])]
                          /\ post' = [NoPost EXCEPT !.pc = "send",
                                                    !.attempts = 1]
  /\ UNCHANGED <<cfgVars, seedVars, pollVars, pollLog, xVars, rateVars, posted,
                 pureVars, max_attempts, outbox, deliveries, start_pc,
                 announced_contributors, chan, receiver_alive, tweets,
                 last_class, locks>>

\* post_with_retry has returned: Ok and Err are only logged, and the loop
\* goes on with the next commit.
PushPosted ==
  /\ web.pc = "posting"
  /\ post.pc = "idle"
  /\ post.result # "none"
  /\ web' = NextCommit(web, Tail(web.commits))
  /\ post' = NoPost
  /\ UNCHANGED <<cfgVars, seedVars, pollVars, pollLog, xVars, rateVars, posted,
                 pureVars, max_attempts, outbox, deliveries, start_pc,
                 announced_contributors, chan, receiver_alive, tweets,
                 last_class, mgr, locks>>

\* The requests GitHub may deliver.
Requests == [event_type : Headers, body : Bodies]

\* ContributorManager::new: an empty cache, last_refresh = Utc::now().
NewManager(t, authors) ==
  [NoMgr EXCEPT !.last_refresh = t, !.history = authors]

\* One request arrives at a handler constructed at time 0, at once or when
\* the cache TTL has passed; its XClient is somewhere in its window.
InitWebhook ==
  /\ IdleRate
  /\ IdleBot
  /\ IdlePure
  /\ IdlePost
  /\ announced_contributors = {}
  /\ \E request \in Requests :
       web = [NoWeb EXCEPT !.pc = "received", !.request = request]
  /\ \E authors \in SUBSET Contributors : mgr = NewManager(0, authors)
  /\ locks = NoLocks
  /\ window_start = 0
  /\ now \in {0, CACHE_TTL + 1}
  /\ tweet_count \in {0, TWEETS_PER_WINDOW}

NextWebhook ==
  \/ HandleWebhook
  \/ PushCommit
  \/ RetrySend
  \/ RetrySleep
  \/ PushPosted

SpecWebhook == InitWebhook /\ [][NextWebhook]_vars

\* ------------------------------------------------- webhook/handler.rs: SpecPushes

\* post_with_retry as one call: the attempts of `for attempt in
\* 1..=MAX_RETRIES` on the answers the API gives, the sleeps between them.
RECURSIVE post_with_retry(_, _, _, _)
post_with_retry(x, t, attempt, outcomes) ==
  LET sent == send_tweet(x, t, outcomes[attempt])
  IN IF sent.ret = "Err" /\ attempt < MAX_RETRIES
     THEN post_with_retry([tweet_count |-> sent.tweet_count,
                           window_start |-> sent.window_start],
                          sent.now + RetryDelay(attempt), attempt + 1, outcomes)
     ELSE [tweet_count |-> sent.tweet_count, window_start |-> sent.window_start,
           now |-> sent.now, ret |-> sent.ret, attempts |-> attempt]

\* What the API answers to the attempts of one post_with_retry.
RetryRuns == [1..MAX_RETRIES -> {"created", "failed"}]

\* handle_push awaits post_with_retry(&tweet).
PostRun ==
  /\ web.pc = "posting"
  /\ post.pc = "send"
  /\ \E outcomes \in RetryRuns :
       LET r == post_with_retry([tweet_count |-> tweet_count,
                                 window_start |-> window_start], now, 1, outcomes)
       IN /\ tweet_count' = r.tweet_count
          /\ window_start' = r.window_start
          /\ now' = r.now
          /\ post' = [post EXCEPT
                        !.pc = "idle", !.result = r.ret, !.attempts = r.attempts,
                        !.statuses = [k \in 1..r.attempts |-> outcomes[k]],
                        !.delays = [k \in 1..(r.attempts - 1) |-> RetryDelay(k)]]
  /\ UNCHANGED <<cfgVars, seedVars, pollVars, pollLog, pureVars, rateVars,
                 webVars, max_attempts, outbox, deliveries, posted, start_pc,
                 announced_contributors, chan, receiver_alive, tweets,
                 last_class>>

\* Time passes: more than the cache TTL.
Elapse ==
  /\ now + CACHE_TTL + 1 <= MaxPushClock
  /\ now' = now + CACHE_TTL + 1
  /\ UNCHANGED <<cfgVars, seedVars, pollVars, pollLog, postVars, rateVars,
                 webVars, posted, pureVars, start_pc, announced_contributors,
                 chan, receiver_alive, tweets, last_class, tweet_count,
                 window_start>>

\* GitHub delivers the next push to the main branch, once the one before has
\* been answered.
ReceivePush ==
  /\ web.pc \in {"idle", "done"}
  /\ web.served < MaxPushes
  /\ \E names \in SeqsUpTo(Contributors, MaxCommits) :
       web' = [NoWeb EXCEPT
                 !.pc = "received",
                 !.request = [event_type |-> "push",
                              body |-> PushBody(<<"refs", "heads", "main">>,
                                                names)],
                 !.served = web.served + 1,
                 !.earlier = web.earlier \o web.posts]
  /\ UNCHANGED <<cfgVars, seedVars, pollVars, pollLog, xVars, postVars,
                 rateVars, posted, pureVars, start_pc, announced_contributors,
                 chan, receiver_alive, tweets, last_class, mgr, locks>>

\* The webhook server has just been started: GitHubClient::new and
\* XClient::new at time 0, on a repository with some contributors.
InitPushes ==
  /\ IdleRate
  /\ IdleBot
  /\ IdlePure
  /\ IdlePost
  /\ IdleX
  /\ announced_contributors = {}
  /\ web = NoWeb
  /\ \E authors \in SUBSET Contributors : mgr = NewManager(0, authors)
  /\ locks = NoLocks

NextPushes ==
  \/ ReceivePush
  \/ Elapse
  \/ HandleWebhook
  \/ PushCommit
  \/ PostRun
  \/ PushPosted

SpecPushes == InitPushes /\ [][NextPushes]_vars

\* ------------------------------------------------- github/contributor.rs: SpecLocks

\* Requests served concurrently call is_first_contribution and
\* get_contributor_info on the one ContributorManager.
Callers == 1..MaxCallers
Methods == {"is_first_contribution", "get_contributor_info"}

IdleCaller == [pc |-> "idle", method |-> "none", ret |-> "none"]

OutsideManager ==
  <<cfgVars, seedVars, pollVars, pollLog, xVars, postVars, rateVars, posted,
    pureVars, start_pc, announced_contributors, chan, receiver_alive, tweets,
    last_class, web>>

\* The read guard on last_refresh kept until the call returns.
AfterLastRefreshRead_keeps_guard(lock, i) ==
  [lock EXCEPT !.readers = @ \cup {i}]

\* `let last_refresh = *self.last_refresh.read().await;`: the guard is a
\* temporary, dropped at the end of the statement.
AfterLastRefreshRead(lock, i) == lock

\* The guards caller i holds are dropped when its call returns.
Returned(l, i) ==
  [l EXCEPT
     !.contributors_cache =
        [writer |-> IF @.writer = i THEN 0 ELSE @.writer,
         readers |-> @.readers \ {i}],
     !.last_refresh =
        [writer |-> IF @.writer = i THEN 0 ELSE @.writer,
         readers |-> @.readers \ {i}]]

\* A request calls one of the two methods.
Call(i) ==
  /\ locks.callers[i].pc = "idle"
  /\ locks.calls < MaxLockCalls
  /\ \E method \in Methods :
       locks' = [locks EXCEPT !.calls = @ + 1,
                              !.callers[i] = [pc |-> "last_refresh_read",
                                              method |-> method,
                                              ret |-> "none"]]
  /\ UNCHANGED <<OutsideManager, mgr>>

\* refresh_cache_if_needed: last_refresh.read().await is granted when no
\* writer holds the lock; the TTL is compared.
ReadLastRefresh(i) ==
  /\ locks.callers[i].pc = "last_refresh_read"
  /\ locks.last_refresh.writer = 0
  /\ locks' = [locks EXCEPT
                 !.last_refresh = AfterLastRefreshRead(@, i),
                 !.callers[i].pc = IF Expired(mgr, now) THEN "cache_write"
                                   ELSE "cache_read"]
  /\ UNCHANGED <<OutsideManager, mgr>>

\* refresh_cache: contributors_cache.write().await is granted when the lock
\* has no holder; the guard is held to the end of refresh_cache.
WriteCache(i) ==
  /\ locks.callers[i].pc = "cache_write"
  /\ locks.contributors_cache = FreeLock
  /\ locks' = [locks EXCEPT !.contributors_cache.writer = i,
                            !.callers[i].pc = "fetch"]
  /\ UNCHANGED <<OutsideManager, mgr>>

\* list_commits().send().await under the write guard: its error returns from
\* the call (`?`), dropping the guard; else *cache = new_cache.
FetchCommits(i) ==
  /\ locks.callers[i].pc = "fetch"
  /\ \E fetched \in Fetches(mgr) :
       LET r == refresh_cache(mgr, now, fetched)
       IN IF r.ok
          THEN /\ mgr' = [mgr EXCEPT !.cache = r.cache]
               /\ locks' = [locks EXCEPT !.callers[i].pc = "last_refresh_write"]
          ELSE /\ mgr' = mgr
               /\ locks' = [Returned(locks, i) EXCEPT
                              !.callers[i] = [IdleCaller EXCEPT
                                                !.ret = "error"]]
  /\ UNCHANGED OutsideManager

\* `*self.last_refresh.write().await = Utc::now();` is granted when the lock
\* has no holder; refresh_cache returns and its cache guard is dropped.
WriteLastRefresh(i) ==
  /\ locks.callers[i].pc = "last_refresh_write"
  /\ locks.last_refresh = FreeLock
  /\ mgr' = [mgr EXCEPT !.last_refresh = now]
  /\ locks' = [locks EXCEPT !.contributors_cache.writer = 0,
                            !.callers[i].pc = "cache_read"]
  /\ UNCHANGED OutsideManager

\* contributors_cache.read().await is granted when no writer holds the lock;
\* the answer is read and the call returns.
ReadCache(i) ==
  /\ locks.callers[i].pc = "cache_read"
  /\ locks.contributors_cache.writer = 0
  /\ locks' = [Returned(locks, i) EXCEPT
                 !.callers[i] = [IdleCaller EXCEPT
                                   !.ret = IF "alice" \in mgr.cache
                                           THEN "known" ELSE "first"]]
  /\ UNCHANGED <<OutsideManager, mgr>>

\* A ContributorManager constructed at time 0 on a repository with commits
\* by alice, and no call in progress.
InitLocks ==
  /\ IdleRate
  /\ IdleBot
  /\ IdlePure
  /\ IdlePost
  /\ IdleX
  /\ announced_contributors = {}
  /\ web = NoWeb
  /\ mgr = NewManager(0, {"alice"})
  /\ locks = [NoLocks EXCEPT !.callers = [i \in Callers |-> IdleCaller]]

CallerStep(i) ==
  \/ ReadLastRefresh(i)
  \/ WriteCache(i)
  \/ FetchCommits(i)
  \/ WriteLastRefresh(i)
  \/ ReadCache(i)

NextLocks ==
  \/ Elapse
  \/ \E i \in Callers :
       \/ Call(i)
       \/ CallerStep(i)

SpecLocks == InitLocks /\ [][NextLocks]_vars

\* Every request is answered and every task is scheduled; tokio's RwLock
\* grants the lock in the order of the requests for it.
SpecLocksFair ==
  /\ SpecLocks
  /\ \A i \in Callers :
       /\ WF_vars(ReadLastRefresh(i))
       /\ SF_vars(WriteCache(i))
       /\ WF_vars(FetchCommits(i))
       /\ WF_vars(WriteLastRefresh(i))
       /\ SF_vars(ReadCache(i))

\* ------------------------------------------------- SpecSeed

\* gather_announced_contributors on histories of several pages, for several
\* page sizes; a commit may have no author.
SeedHistories == SeqsUpTo({"alice", "bob", NoAuthor}, MaxSeedHistory)

InitSeed ==
  /\ IdleRate
  /\ IdleWeb
  /\ exit_on_poll_error = FALSE
  /\ per_page \in 1..MaxPerPage
  /\ history \in SeedHistories
  /\ start_pc = "seeding"
  /\ page_index = 0
  /\ has_next_page = TRUE
  /\ announced_contributors = {}
  /\ seeded = {}
  /\ poll_pc = "idle"
  /\ etag = NoEtag
  /\ events = NoEvents
  /\ chan = <<>>
  /\ receiver_alive = TRUE
  /\ polls = 0
  /\ forwarded = 0
  /\ last_poll = NoPoll
  /\ nd = NoRun
  /\ tweets = NoTweets
  /\ last_class = NoClass
  /\ posted = <<>>
  /\ IdleX
  /\ IdlePure
  /\ IdlePost

NextSeed ==
  \/ SeedPage
  \/ SeedFails

SpecSeed == InitSeed /\ [][NextSeed]_vars

\* ------------------------------------------------- SpecClassify, SpecLedger

\* The events drawn for one call of the classifier.
ClassifyEvents ==
  {PushEvent(9, cs) : cs \in SeqsUpTo(Emails \X BOOLEAN, MaxCommits)}
    \cup {ReleaseEvent(9, a, r) : a \in ReleaseActions, r \in Releases}
    \cup {OtherEvent(9)}

InitClassify ==
  /\ IdleRate
  /\ IdleWeb
  /\ IdleBot
  /\ IdlePost
  /\ announced_contributors \in SUBSET Emails
  /\ in_event \in ClassifyEvents
  /\ hook = NoHook
  /\ calls = <<>>
  /\ window_start = 0
  /\ IF in_event.kind = "release"
     THEN /\ tweet_count \in {0, TWEETS_PER_WINDOW}
          /\ now \in {0, RATE_LIMIT_WINDOW - 1, RATE_LIMIT_WINDOW}
     ELSE /\ tweet_count = 0
          /\ now = 0

\* filter_github_event(&mut announced_contributors, event) on the drawn event.
ClassifyDrawn ==
  /\ last_class = NoClass
  /\ Classified([resp |-> 0, pos |-> 0, event |-> in_event])
  /\ UNCHANGED <<cfgVars, seedVars, pollVars, pollLog, xVars, postVars,
                 rateVars, webVars, posted, pureVars, start_pc, chan,
                 receiver_alive, tweets>>

\* handle_webhook hands the drawn release event to handle_release.
HandleReleaseDrawn ==
  /\ ~hook.done
  /\ in_event.kind = "release"
  /\ \E outcome \in ApiOutcomes :
       LET r == handle_release(in_event,
                               [tweet_count |-> tweet_count,
                                window_start |-> window_start], now, outcome)
       IN /\ tweet_count' = r.tweet_count
          /\ window_start' = r.window_start
          /\ now' = r.now
          /\ hook' = [done |-> TRUE, posts |-> r.posts, ret |-> r.ret]
  /\ UNCHANGED <<cfgVars, seedVars, pollVars, pollLog, postVars, rateVars,
                 webVars, posted, in_event, calls, start_pc,
                 announced_contributors, chan, receiver_alive, tweets,
                 last_class>>

NextClassify ==
  \/ ClassifyDrawn
  \/ HandleReleaseDrawn

SpecClassify == InitClassify /\ [][NextClassify]_vars

InitLedger ==
  /\ IdleRate
  /\ IdleWeb
  /\ IdleBot
  /\ IdleX
  /\ IdlePure
  /\ IdlePost
  /\ announced_contributors \in SUBSET Emails

\* One call is_first_contribution(&mut announced_contributors, &author): the
\* exclusive borrow makes calls on one ledger follow one another.
CallIsFirstContribution ==
  /\ Len(calls) < MaxCalls
  /\ \E e \in Emails :
       LET r == is_first_contribution(announced_contributors, CommitAuthor(e))
       IN /\ announced_contributors' = r.announced
          /\ calls' = Append(calls, [email |-> e, ret |-> r.ret,
                                     before |-> announced_contributors,
                                     after |-> r.announced])
  /\ UNCHANGED <<cfgVars, seedVars, pollVars, pollLog, xVars, postVars,
                 rateVars, webVars, posted, in_event, hook, start_pc, chan,
                 receiver_alive, tweets, last_class>>

SpecLedger == InitLedger /\ [][CallIsFirstContribution]_vars

\* ------------------------------------------------- claims: the polling bot

\* C1: over any run of bot::start, each author email gives rise to at most one
\* contributor tweet request, also when the author has several distinct commits
\* in one push and when the same push event is delivered again.
C1_OneAnnouncementPerEmail ==
  \A e \in Emails : tweets.contributor[e] <= 1

\* The push with two commits by bob has been classified a second time (alice
\* is unknown, so bob entered the ledger through that same push).
C1_Witness ==
  /\ last_class.event = PushEvent(2, << <<"bob", TRUE>>, <<"bob", TRUE>> >>)
  /\ "bob" \in last_class.before
  /\ "alice" \notin last_class.before
  /\ tweets.contributor["bob"] = 1

\* C2: an author email that gather_announced_contributors put into the ledger
\* never produces a contributor tweet, however often its commits reappear.
C2_SeededNeverAnnounced ==
  \A e \in seeded : tweets.contributor[e] = 0

\* A push with a distinct commit by the seeded alice has been classified.
C2_Witness ==
  /\ "alice" \in seeded
  /\ last_class.event = PushEvent(1, << <<"alice", TRUE>>, <<"bob", TRUE>> >>)
  /\ tweets.contributor["alice"] = 0
  /\ tweets.contributor["bob"] = 1

\* C6 (as claimed): over any sequence of polls a published release is announced
\* at most once, also when the feed returns its record in more than one answer.
C6_ReleaseAnnouncedOnce ==
  \A u \in ReleaseUrls : tweets.release[u] <= 1

\* C7: a failed fetch with exit_on_poll_error = false does not stop the loop:
\* it forwards nothing, leaves the cursor as it was, sleeps, and the next
\* request carries that same cursor.
C7_FailedPollKeepsCursor ==
  [][ /\ (polls' = polls + 1 /\ last_poll'.kind = "error" /\ ~exit_on_poll_error)
         => /\ poll_pc' = "sleep"
            /\ etag' = etag
            /\ forwarded' = forwarded
            /\ chan' = chan
      /\ (last_poll.kind = "error" /\ ~exit_on_poll_error /\ polls' = polls)
         => /\ etag' = etag
            /\ poll_pc' \in {"sleep", "fetch"}
      /\ (last_poll.kind = "error" /\ ~exit_on_poll_error /\ polls' = polls + 1)
         => last_poll'.req = last_poll.req
    ]_vars

\* After a failed fetch the loop has slept and is about to ask again with the
\* cursor it held.
C7_Witness ==
  /\ last_poll.kind = "error"
  /\ ~exit_on_poll_error
  /\ poll_pc = "fetch"
  /\ etag # NoEtag
  /\ etag = last_poll.req

\* C8 (as claimed): after a 304 answer the cursor is the one the request
\* carried, whatever etag header the answer has.
C8_NotModifiedKeepsCursor ==
  last_poll.kind = "not_modified" => etag = last_poll.req

\* C8 (amended): a 304 answer forwards nothing and the cursor becomes the etag
\* header of the answer; it is unchanged only when the answer repeats the
\* request's etag, and it is cleared when the answer has no etag header.
C8_NotModifiedTakesAnswerEtag ==
  last_poll.kind = "not_modified"
    => /\ etag = last_poll.resp
       /\ last_poll.sent = 0
       /\ events = NoEvents
       /\ poll_pc \in {"sleep", "fetch"}

\* A 304 answer carried no etag header and the cursor is gone.
C8_Witness ==
  /\ last_poll.kind = "not_modified"
  /\ last_poll.req # NoEtag
  /\ last_poll.resp = NoEtag
  /\ etag = NoEtag

\* The state a run of "no new data" polls started from is the state after it.
SameAsBefore(snapshot) ==
  /\ announced_contributors' = snapshot.announced
  /\ etag' = snapshot.etag
  /\ forwarded' = snapshot.forwarded

\* C9 (as claimed): after two consecutive same-cursor "no new data" polls,
\* nothing was forwarded and the ledger and the cursor are what they were
\* before the first.
C9_NoDataPollsChangeNothing ==
  [][ (polls' = polls + 1 /\ nd'.streak = 2) => SameAsBefore(nd'.first) ]_vars

\* C9 (amended): the same, provided no payload forwarded earlier was still in
\* the channel when the first of the two polls was made; this holds after the
\* first of the two polls as well.
C9_QuietNoDataPollsChangeNothing ==
  [][ (polls' = polls + 1 /\ nd'.streak >= 1 /\ nd'.first.chan = <<>>)
        => SameAsBefore(nd'.first) /\ chan' = <<>> ]_vars

\* Two same-cursor 304 answers in a row, after payloads had been forwarded and
\* classified.
C9_Witness ==
  /\ nd.streak = 2
  /\ nd.first.chan = <<>>
  /\ nd.first.forwarded > 0
  /\ nd.first.announced # {}
  /\ announced_contributors = nd.first.announced
  /\ etag = nd.first.etag

Later(a, b) == a.resp > b.resp \/ (a.resp = b.resp /\ a.pos > b.pos)

\* C11: the consumer classifies and tweets the records in the order the feed
\* returned them, within one response and across responses, and the tweet
\* requests of one push are issued in commit order, for its new contributors
\* only.
C11_AnnouncedInFeedOrder ==
  [][ last_class'.at # last_class.at
        => /\ Later(last_class'.at, last_class.at)
           /\ posted' = PostTweetRequests(last_class'.announcement)
           /\ \A k, l \in 1..Len(posted') : k < l => posted'[k].url < posted'[l].url
           /\ \A i \in 1..Len(chan') : Later(chan'[i], last_class'.at)
    ]_vars

\* A push with two new contributors, the second record of its response, has
\* been tweeted after an earlier record had been classified: alice, then bob.
C11_Witness ==
  /\ last_class.at.pos = 2
  /\ Len(posted) = 2
  /\ posted[1].name = "alice"
  /\ posted[2].name = "bob"
  /\ posted[1].url < posted[2].url

\* C12: with exit_on_poll_error, a failed fetch ends the poll loop: no fetch
\* and no send follows; a payload leaves the channel only by being classified
\* by the consumer; and the consumer, woken by the closed channel, drains it
\* and bot::start returns Ok(()).
C12_FailedPollEndsBot ==
  /\ [][ /\ (polls' = polls + 1 /\ last_poll'.kind = "error" /\ exit_on_poll_error)
            => poll_pc' = "stopped"
         /\ (poll_pc = "stopped")
            => /\ poll_pc' = "stopped"
               /\ polls' = polls
               /\ forwarded' = forwarded
         /\ (chan # <<>> /\ chan' # chan /\ Len(chan') <= Len(chan))
            => /\ chan' = Tail(chan)
               /\ last_class'.event = Head(chan).event
               /\ last_class'.at = [resp |-> Head(chan).resp, pos |-> Head(chan).pos]
         /\ (start_pc = "consuming" /\ start_pc' # "consuming")
            => /\ start_pc' = "returned"
               /\ poll_pc = "stopped"
               /\ chan = <<>>
      ]_vars
  /\ (poll_pc = "stopped") ~> (start_pc = "returned" /\ chan = <<>>)

\* The fetch failed while a forwarded payload was still buffered; the payload
\* was classified after the failure and bot::start has returned.
C12_Witness ==
  /\ start_pc = "returned"
  /\ poll_pc = "stopped"
  /\ last_poll.kind = "error"
  /\ forwarded > 0
  /\ last_class.at.resp = last_poll.n - 1
  /\ chan = <<>>

\* C13 (as claimed): once the receiving end of the channel has been dropped,
\* the poll loop reaches its terminal state, from its sleep as well as from a
\* failed send.
C13_DroppedReceiverStopsLoop ==
  (start_pc = "dropped") ~> (poll_pc = "stopped")

\* C14: when a commit page fetch fails during seeding, bot::start has returned
\* the error: the poll loop was never started, nothing was fetched, forwarded,
\* classified or tweeted, and the partly gathered ledger was handed to nobody;
\* the poll loop runs only after the gathering has ended with a page that has
\* no successor, on the ledger it returned.
C14_SeedFailureIsFatal ==
  /\ start_pc = "failed"
       => /\ poll_pc = "idle"
          /\ polls = 0
          /\ forwarded = 0
          /\ chan = <<>>
          /\ ~receiver_alive
          /\ seeded = {}
          /\ last_class = NoClass
          /\ tweets = NoTweets
          /\ posted = <<>>
  /\ poll_pc # "idle"
       => /\ ~has_next_page
          /\ start_pc # "failed"
          /\ seeded \subseteq announced_contributors

\* The fetch of the second page failed after the first had been gathered.
C14_Witness ==
  /\ start_pc = "failed"
  /\ page_index > 0
  /\ announced_contributors # {}

\* The author emails of the whole history.
HistoryAuthors == {history[i] : i \in 1..Len(history)} \ {NoAuthor}

\* C15 (as claimed): when gather_announced_contributors has returned, the
\* ledger holds the author email of every commit of the history that has an
\* author, for every number of pages and every page size.
C15_SeedingCoversHistory ==
  start_pc = "consuming" => seeded = HistoryAuthors

\* C26: the records returned by the first poll, which is made with no cursor,
\* are never forwarded to the consumer: a response to a request without
\* cursor has none of its payloads sent, nothing in the channel and nothing
\* the consumer received comes from the first response, and the response's
\* etag is kept as the cursor.
C26_FirstPollIsHistory ==
  /\ last_poll.n = 1 => last_poll.req = NoEtag
  /\ last_poll.req = NoEtag => last_poll.sent = 0 /\ poll_pc # "send"
  /\ (last_poll.kind = "ok" /\ last_poll.req = NoEtag) => etag = last_poll.resp
  /\ \A i \in 1..Len(chan) : chan[i].resp # 1
  /\ last_class.at.resp # 1

\* The first poll returned two records with payload and an etag: the etag is
\* the cursor, and nothing was sent.
C26_Witness ==
  /\ last_poll.n = 1
  /\ last_poll.kind = "ok"
  /\ last_poll.total = 2
  /\ last_poll.sent = 0
  /\ etag = last_poll.resp
  /\ etag # NoEtag
  /\ forwarded = 0

\* C27 (as claimed): only the first successful poll response has its records
\* dropped: a response with records that follows a successful response has
\* its records forwarded; and a cursor once obtained never reverts to absent,
\* whatever etag header later responses carry or omit.
C27_OnlyFirstResponseDropped ==
  [][ /\ (etag # NoEtag) => (etag' # NoEtag)
      /\ (/\ polls' = polls + 1
          /\ last_poll.kind \in {"ok", "not_modified"}
          /\ last_poll'.kind = "ok"
          /\ last_poll'.total > 0)
         => (poll_pc' = "send" /\ Len(events'.pending) = last_poll'.total) ]_vars

\* C28 (as claimed): the hand-off is bounded with capacity 1: at most one
\* payload is buffered in any reachable state, the poll loop stays in its
\* send while the buffer is full, and the next fetch is not issued until
\* every payload the loop had to forward of the current response has been
\* accepted by the channel.
C28_BoundedHandOff ==
  [][ /\ Len(chan) <= 1
      /\ Len(chan') <= 1
      /\ (poll_pc = "send" /\ Len(chan) = 1)
         => (poll_pc' = "send" /\ forwarded' = forwarded /\ events' = events)
      /\ (polls' = polls + 1 /\ last_poll.kind = "ok" /\ last_poll.req # NoEtag)
         => last_poll.sent = last_poll.total ]_vars

\* ------------------------------------------------- claims: x::Client

\* C16: in post_tweet no send attempt follows a 4xx answer for the same tweet:
\* a 4xx answer is the last attempt of its call, which has given up; a tweet
\* whose first send is answered 4xx is sent exactly once, whatever the
\* attempt ceiling.
C16_ClientErrorEndsAttempts ==
  /\ \A k \in 1..Len(post.statuses) :
       post.statuses[k] = "client_error"
         => /\ k = Len(post.statuses)
            /\ post.pc = "idle"
            /\ post.result = "gave_up"
  /\ (Len(post.statuses) >= 1 /\ post.statuses[1] = "client_error")
       => Len(post.statuses) = 1

\* With a ceiling of 3 attempts the first send was answered 4xx and
\* post_tweet has returned after that one attempt.
C16_Witness ==
  /\ max_attempts = 3
  /\ post.statuses = <<"client_error">>
  /\ post.pc = "idle"
  /\ post.result = "gave_up"

\* C17: post_tweet makes at most max_attempts send attempts for one tweet,
\* none after a successful one, and the pauses between consecutive attempts
\* grow strictly: 3 s times the number of the attempt that failed.
C17_BoundedAttemptsGrowingDelays ==
  /\ Len(post.statuses) <= max_attempts
  /\ post.attempts <= max_attempts
  /\ \A k \in 1..Len(post.statuses) :
       post.statuses[k] = "ok"
         => /\ k = Len(post.statuses)
            /\ post.pc = "idle"
            /\ post.result = "posted"
  /\ \A k \in 1..(Len(post.statuses) - 1) :
       /\ k <= Len(post.delays)
       /\ post.delays[k] = 3 * k
  /\ \A k, l \in 1..Len(post.delays) : k < l => post.delays[k] < post.delays[l]

\* Two transient failures, then success at the third and last attempt, after
\* pauses of 3 s and 6 s.
C17_Witness ==
  /\ max_attempts = 3
  /\ post.statuses = <<"server_error", "network_error", "ok">>
  /\ post.delays = <<3, 6>>
  /\ post.result = "posted"

\* C20: a post that is given up ends post_tweet only: bot::start stays in its
\* consumer loop, and an event waiting in the channel at that moment is
\* received and classified and all its tweet requests are handed to post_tweet.
C20_GivenUpPostIsNotFatal ==
  /\ [](start_pc = "consuming" /\ receiver_alive)
  /\ \A n \in 1..MaxDeliveries :
       (post.result = "gave_up" /\ chan # <<>> /\ chan[1].resp = n)
         ~> (/\ last_class.at.resp = n
             /\ post.pc = "idle"
             /\ outbox = <<>>
             /\ posted = PostTweetRequests(last_class.announcement))

\* A post for the first event, a push, was given up; the next event, a
\* published release, has been classified and its tweet posted.
C20_Witness ==
  /\ max_attempts = 2
  /\ post.given_up = 1
  /\ last_class.at.resp = 2
  /\ last_class.announcement.kind = "Release"
  /\ Len(posted) = 1
  /\ post.result = "posted"
  /\ tweets.contributor["bob"] = 1
  /\ tweets.release["rel/1"] = 1

\* C39 (as claimed): post_tweet sleeps for backoff only between two send
\* attempts: after the final failed attempt (attempt number max_attempts) it
\* gives up and returns without a further sleep, as after a client error.
C39_NoSleepAfterFinalAttempt ==
  /\ post.pc = "sleep" => post.attempts < max_attempts
  /\ post.result = "gave_up" => Len(post.delays) < Len(post.statuses)

\* ------------------------------------------------- claims: XClient

\* C18 (as claimed): in post_with_retry a 4xx rejection is the last send
\* attempt for its text: the call has returned and retries no more.
C18_RejectionAbortsRetries ==
  \A k \in 1..Len(post.statuses) :
    post.statuses[k] = "rejected"
      => /\ k = Len(post.statuses)
         /\ post.pc = "idle"

\* C19: post_with_retry makes at most MAX_RETRIES send attempts; Ok(id) is
\* returned at the first successful attempt, which is the last; Err is
\* returned after MAX_RETRIES failed attempts and not before; and the pauses
\* lie between the attempts only, 2 s times the number of the failed attempt.
C19_AtMostMaxRetriesAttempts ==
  /\ Len(post.statuses) <= MAX_RETRIES
  /\ post.attempts <= MAX_RETRIES
  /\ \A k \in 1..Len(post.statuses) :
       post.statuses[k] = "created"
         => /\ k = Len(post.statuses)
            /\ post.pc = "idle"
            /\ post.result = "Ok"
  /\ post.result = "Ok"
       => post.statuses[Len(post.statuses)] = "created"
  /\ post.result = "Err"
       => /\ Len(post.statuses) = MAX_RETRIES
          /\ \A k \in 1..MAX_RETRIES : post.statuses[k] # "created"
  /\ Len(post.delays) <= MAX_RETRIES - 1
  /\ post.pc = "idle" => Len(post.delays) = Len(post.statuses) - 1
  /\ \A k \in 1..Len(post.delays) : post.delays[k] = 2 * k

\* Three failed attempts with pauses of 2 s and 4 s between them: Err.
C19_Witness ==
  /\ Len(post.statuses) = MAX_RETRIES
  /\ post.statuses[1] = "failed"
  /\ post.statuses[3] = "failed"
  /\ post.delays = <<2, 4>>
  /\ post.result = "Err"
  /\ post.pc = "idle"

\* The label the announcement of a release is to carry: its display name when
\* it has one, else its tag name.
NameElseTag(rel) == IF rel.name # NoName THEN rel.name ELSE rel.tag_name

\* C24 (as claimed): every Release announcement, of filter_github_event and of
\* the webhook's handle_release, carries the release's display name when one
\* is set and its tag name otherwise.
C24_VersionIsNameElseTag ==
  /\ last_class.announcement.kind = "Release"
       => last_class.announcement.version = NameElseTag(last_class.event.release)
  /\ (hook.done /\ hook.posts # <<>>)
       => hook.posts[1].version = NameElseTag(in_event.release)

\* C32 (as claimed): one call of post_with_retry causes at most one post to
\* be accepted by the posting API: after an attempt the API accepted, with or
\* without tweet data in its answer, no further send is made for that call.
C32_AtMostOneAcceptedPost ==
  Cardinality({i \in 1..Len(post.statuses) :
                 post.statuses[i] \in {"created", "created_no_data"}}) <= 1

\* ------------------------------------------------- claims: handle_webhook

\* C25: handle_webhook maps every request to one outcome by event kind: a kind
\* other than ping, push or release yields 501 and calls no handler; a ping,
\* push or release whose body fails to parse yields 422 and posts nothing; a
\* missing (or unreadable) x-github-event header yields 400; a handler error
\* yields 500; otherwise 200.  No status is given before the request is done.
C25_OutcomeByEventKind ==
  LET type == web.request.event_type
      body == web.request.body
  IN /\ web.pc \in {"received", "push", "posting"} => web.status = 0
     /\ web.pc = "done" =>
          /\ web.status =
               IF type \in {NoHeader, UnreadableHeader} THEN 400
               ELSE IF type \notin {"ping", "push", "release"} THEN 501
               ELSE IF body.kind # type THEN 422
               ELSE IF web.handler_ret = "Err" THEN 500
               ELSE 200
          /\ web.status \in {400, 501, 422}
               => web.called = "none" /\ web.posts = <<>> /\ web.checks = <<>>
          /\ web.status \in {400, 501, 422, 200} => web.handler_ret # "Err"
          /\ web.handler_ret = "Err" <=>
               (web.checks # <<>> /\ web.checks[Len(web.checks)].answer = "error")

\* A push to main was answered 500: the second commit's contributor check
\* failed after the first commit's author had been tweeted.
C25_Witness ==
  /\ web.pc = "done"
  /\ web.status = 500
  /\ web.request.event_type = "push"
  /\ Len(web.posts) = 1
  /\ Len(web.checks) = 2

\* ------------------------------------------------- claims: ContributorManager

\* C35 (as claimed): is_first_contribution never answers from a cache that no
\* successful refresh has populated: for a username with commits in the
\* repository history it does not return true, from the first call after
\* construction onward.
C35_NoAnswerFromUnpopulatedCache ==
  (mgr.last.n > 0 /\ mgr.last.username \in mgr.history)
    => mgr.last.ret # "first"

\* The new-contributor tweets handle_push has handed to the X client, over
\* all push deliveries so far.
AllPosts == web.earlier \o web.posts

\* C36 (as claimed): over any sequence of handle_push calls the same username
\* is announced as a new contributor at most once, also for two commits by
\* that user in one push and for two pushes within one cache TTL.
C36_OneAnnouncementPerUsername ==
  \A i, j \in 1..Len(AllPosts) :
    AllPosts[i].name = AllPosts[j].name => i = j

\* C37: when the commit fetch inside refresh_cache fails, the cache and
\* last_refresh keep their values, the error reaches handle_push, which
\* returns it (HTTP 500) without posting for that commit, and the next call of
\* is_first_contribution attempts the refresh again.
C37_FailedRefreshChangesNothing ==
  [][ /\ (mgr'.last.n = mgr.last.n + 1 /\ mgr'.last.ret = "error")
         => /\ mgr'.last.expired
            /\ mgr'.cache = mgr.cache
            /\ mgr'.last_refresh = mgr.last_refresh
            /\ Expired(mgr', now')
            /\ web'.pc = "done"
            /\ web'.status = 500
            /\ web'.handler_ret = "Err"
            /\ web'.posts = web.posts
            /\ post' = post
      /\ (mgr'.last.n = mgr.last.n + 1 /\ mgr.last.ret = "error")
         => mgr'.last.expired
      /\ (mgr.last.ret = "error" /\ mgr'.last.n = mgr.last.n)
         => (mgr' = mgr /\ Expired(mgr', now')) ]_vars

\* The second push is answered 500: the refresh for its second commit failed,
\* after its first commit's author had been tweeted from the cache as it was.
C37_Witness ==
  /\ web.served = 2
  /\ web.pc = "done"
  /\ web.status = 500
  /\ Len(web.checks) = 2
  /\ Len(web.posts) = 1
  /\ mgr.last.ret = "error"
  /\ mgr.last.expired
  /\ mgr.cache = mgr.last.cache
  /\ mgr.last_refresh = mgr.last.last_refresh

\* ------------------------------------------------- claims: the rate window

\* The latest call of send_tweet found the window it read still open.
LastCallInWindow ==
  rate.last.t - rate.last.window_start < RATE_LIMIT_WINDOW

\* The latest call found the count at capacity in an open window.
LastCallAtCapacity ==
  /\ rate.calls > 0
  /\ LastCallInWindow
  /\ rate.last.tweet_count >= TWEETS_PER_WINDOW

\* C21: under sequential calls, a call that finds TWEETS_PER_WINDOW accepted
\* sends in the open window reaches the posting API no earlier than the
\* window's boundary window_start + RATE_LIMIT_WINDOW; no other call waits,
\* and so the first TWEETS_PER_WINDOW calls, over however many windows, never
\* wait.
C21_CapacityCallWaitsForBoundary ==
  /\ LastCallAtCapacity
       => rate.last.reached >= rate.last.window_start + RATE_LIMIT_WINDOW
  /\ (rate.calls > 0 /\ rate.last.reached > rate.last.t) => LastCallAtCapacity
  /\ rate.calls <= TWEETS_PER_WINDOW => rate.waits = 0

\* The 51st call, half a window after the first 50 were accepted, reached the
\* API at the boundary.
C21_Witness ==
  /\ rate.calls = TWEETS_PER_WINDOW + 1
  /\ rate.last.tweet_count = TWEETS_PER_WINDOW
  /\ rate.last.window_start = 0
  /\ rate.last.t = RATE_LIMIT_WINDOW \div 2
  /\ rate.last.reached = RATE_LIMIT_WINDOW
  /\ rate.waits = 1

\* C22: under sequential calls tweet_count never exceeds TWEETS_PER_WINDOW: a
\* call that finds the count at capacity in an open window waits until the
\* window's boundary and sends with the count set back to 0.
C22_CountWithinCapacity ==
  /\ tweet_count <= TWEETS_PER_WINDOW
  /\ LastCallAtCapacity
       => /\ rate.last.reached = rate.last.window_start + RATE_LIMIT_WINDOW
          /\ rate.last.count_after <= 1
          /\ tweet_count = rate.last.count_after

\* A call found the count at 50, waited, and its accepted send made it 1.
C22_Witness ==
  /\ LastCallAtCapacity
  /\ rate.last.outcome = "created"
  /\ tweet_count = 1
  /\ now = rate.last.window_start + RATE_LIMIT_WINDOW

\* C29: send_tweet adds exactly 1 to tweet_count for a send the API accepts
\* and nothing for a send that fails, counting from 0 when the call has reset
\* the window; it returns Ok (the post's id) exactly when the answer carries
\* the post's data.
C29_CountsAcceptedSends ==
  rate.calls > 0
    => LET c == rate.last
           reset == ~LastCallInWindow \/ c.tweet_count >= TWEETS_PER_WINDOW
           base == IF reset THEN 0 ELSE c.tweet_count
       IN /\ c.outcome \in {"created", "created_no_data"}
               => c.count_after = base + 1
          /\ c.outcome \in {"failed", "rejected"} => c.count_after = base
          /\ tweet_count = c.count_after
          /\ c.ret = "Ok" <=> c.outcome = "created"

\* After two accepted sends a send failed and left the count at 2.
C29_Witness ==
  /\ rate.calls = 3
  /\ rate.last.outcome = "failed"
  /\ rate.last.tweet_count = 2
  /\ LastCallInWindow
  /\ tweet_count = 2
  /\ rate.last.ret = "Err"

\* C23 (as claimed): under concurrent calls of send_tweet on one XClient the
\* value of tweet_count, and with it the number of posts the API accepted in
\* the window, stays at or below TWEETS_PER_WINDOW.
C23_NoOvershootUnderConcurrency ==
  tweet_count <= TWEETS_PER_WINDOW

\* C34 (as claimed): the unsigned subtraction now - window_start in send_tweet
\* never underflows: window_start <= now holds at the subtraction for every
\* interleaving of concurrent callers sharing one XClient.
C34_SubtractionNeverUnderflows ==
  \A i \in 1..Len(senders) :
    /\ senders[i].pc = "check" => senders[i].window_start <= senders[i].now
    /\ senders[i].pc # "panicked"

\* C33 (as claimed): consecutive rate windows do not overlap: when send_tweet
\* resets the window, on expiry or after waiting at capacity, the new
\* window_start is at least the previous window_start + RATE_LIMIT_WINDOW.
C33_WindowsDoNotOverlap ==
  LET call == rate.last
      expired == call.t - call.window_start >= RATE_LIMIT_WINDOW
      waited == ~expired /\ call.tweet_count >= TWEETS_PER_WINDOW
  IN (rate.calls > 0 /\ (expired \/ waited))
       => window_start >= call.window_start + RATE_LIMIT_WINDOW

\* ------------------------------------------------- claims: the classifier

\* The ledger at the moment the i-th commit of a push is examined.
LedgerAt(before, commits, i) ==
  before \cup {commits[j].author.email : j \in {k \in 1..(i - 1) : commits[k].distinct}}

\* The commits of a push that are distinct and by an author not in the ledger
\* when examined.
FirstContributions(before, commits) ==
  {i \in 1..Len(commits) :
     /\ commits[i].distinct
     /\ commits[i].author.email \notin LedgerAt(before, commits, i)}

\* C3: classifying a push yields one contributor announcement for each
\* distinct commit whose author email is absent from the ledger when the
\* commit is examined, none for the others, in commit order, and afterwards
\* every announced email is in the ledger.
C3_PushClassification ==
  last_class.event.kind = "push"
    => LET commits == last_class.event.commits
           items == last_class.announcement.items
           first == FirstContributions(last_class.before, commits)
       IN /\ last_class.announcement.kind = "Contributor"
          /\ Len(items) = Cardinality(first)
          /\ {items[k].url : k \in 1..Len(items)} = first
          /\ \A k, l \in 1..Len(items) : k < l => items[k].url < items[l].url
          /\ \A k \in 1..Len(items) :
               /\ items[k] = NewContributor(commits[items[k].url])
               /\ commits[items[k].url].author.email \in last_class.after
          /\ last_class.before \subseteq last_class.after

\* Seeded alice, a push with one commit by alice and one by bob: one
\* announcement, for bob, and bob is in the ledger.
C3_Witness ==
  /\ last_class.before = {"alice"}
  /\ last_class.event = PushEvent(9, << <<"alice", TRUE>>, <<"bob", TRUE>> >>)
  /\ Len(last_class.announcement.items) = 1
  /\ last_class.announcement.items[1].name = "bob"
  /\ last_class.after = {"alice", "bob"}

\* C4 (as claimed): for any ledger and identity, of two calls of
\* is_first_contribution with the same identity exactly one returns true.
C4_TrueExactlyOnce ==
  \A i \in 1..(Len(calls) - 1) :
    calls[i].email = calls[i + 1].email
      => (calls[i].ret /\ ~calls[i + 1].ret) \/ (~calls[i].ret /\ calls[i + 1].ret)

\* C4 (amended): of two calls with the same identity at most one returns true:
\* the first returns true exactly when the identity was absent, every later
\* one returns false, and the ledger holds the identity after the first call.
C4_TrueAtMostOnce ==
  \A i \in 1..Len(calls) :
    /\ calls[i].ret <=> calls[i].email \notin calls[i].before
    /\ calls[i].email \in calls[i].after
    /\ \A j \in (i + 1)..Len(calls) :
         calls[j].email = calls[i].email => ~calls[j].ret

\* Two calls in a row for an identity that was absent: true, then false.
C4_Witness ==
  /\ Len(calls) >= 2
  /\ calls[1].email = calls[2].email
  /\ calls[1].email \notin calls[1].before
  /\ calls[1].ret
  /\ ~calls[2].ret

\* C5: a release event produces a Release announcement if and only if its
\* action is "published", in filter_github_event and in handle_release.
C5_ReleaseIffPublished ==
  /\ last_class.event.kind = "release"
       => (last_class.announcement.kind = "Release"
             <=> last_class.event.action = "published")
  /\ last_class.announcement.kind = "Release" => last_class.event.kind = "release"
  /\ hook.done => (hook.posts # <<>> <=> in_event.action = "published")

\* A published release went through both and was announced by both.
C5_Witness ==
  /\ in_event.kind = "release"
  /\ in_event.action = "published"
  /\ last_class.event = in_event
  /\ last_class.announcement.kind = "Release"
  /\ hook.done
  /\ Len(hook.posts) = 1

\* C30: an event that is neither push nor release, and a release event of any
\* action, produces no Contributor announcement and leaves the contributor
\* ledger as it was; only a push event can change the ledger.
C30_OnlyPushChangesLedger ==
  /\ (last_class # NoClass /\ last_class.event.kind # "push")
       => /\ last_class.announcement.kind # "Contributor"
          /\ last_class.after = last_class.before
          /\ announced_contributors = last_class.before
  /\ last_class.event.kind \notin {"push", "release"}
       => last_class.announcement = NoAnnouncement
  /\ last_class.after # last_class.before => last_class.event.kind = "push"

\* A published release was classified on a ledger that holds two emails.
C30_Witness ==
  /\ last_class.event.kind = "release"
  /\ last_class.event.action = "published"
  /\ last_class.announcement.kind = "Release"
  /\ Cardinality(last_class.before) = 2
  /\ announced_contributors = last_class.before

\* C31: a commit of a push that is not flagged distinct is neither announced
\* nor recorded: the ledger grows by the authors of the distinct commits
\* only, so a later distinct commit by the same, still unrecorded author is
\* announced as a first contribution.
C31_NonDistinctCommitLeavesNoTrace ==
  last_class.event.kind = "push"
    => LET commits == last_class.event.commits
           items == last_class.announcement.items
           Distinct == {i \in 1..Len(commits) : commits[i].distinct}
           Announced == {items[k].url : k \in 1..Len(items)}
       IN /\ Announced \subseteq Distinct
          /\ last_class.after =
               last_class.before \cup {commits[i].author.email : i \in Distinct}
          /\ \A i \in Distinct :
               (/\ commits[i].author.email \notin last_class.before
                /\ \A j \in Distinct : j < i
                     => commits[j].author.email # commits[i].author.email)
               => i \in Announced

\* A push whose first commit, by bob, is not distinct and whose second, by
\* bob too, is: bob was not in the ledger, and the second commit is announced.
C31_Witness ==
  /\ last_class.event = PushEvent(9, << <<"bob", FALSE>>, <<"bob", TRUE>> >>)
  /\ "bob" \notin last_class.before
  /\ Len(last_class.announcement.items) = 1
  /\ last_class.announcement.items[1].url = 2
  /\ "bob" \in last_class.after

\* ------------------------------------------------- claims: the manager's locks

\* C38: concurrent calls of is_first_contribution and get_contributor_info
\* never deadlock on the two read-write locks: in every interleaving, also
\* with several callers refreshing at once, each call acquires its locks and
\* returns, and no guard is left held when no call is in progress.
C38_CallsReturn ==
  /\ \A i \in Callers :
       [](locks.callers[i].pc # "idle" => <>(locks.callers[i].pc = "idle"))
  /\ []((\A i \in Callers : locks.callers[i].pc = "idle")
          => (locks.contributors_cache = FreeLock /\ locks.last_refresh = FreeLock))

\* Caller 1 holds the write guard on the cache while refreshing, and caller 2,
\* which found the TTL expired too, waits for that guard.
C38_Witness ==
  /\ locks.callers[1].pc = "last_refresh_write"
  /\ locks.contributors_cache.writer = 1
  /\ locks.callers[2].pc = "cache_write"

====
